---- MODULE Spec2Model ----
(***************************************************************************)
(* quinn-backend: the user lifecycle (start-verification, verify,          *)
(* create-checkout-session, stripe-webhook, voice-webhook,                 *)
(* check-user-status) of the server.js snapshots, over one `users` table.  *)
(*                                                                         *)
(* The repository holds several snapshots of server.js that were deployed  *)
(* one after another against the same database.  A request is served by    *)
(* the handler of one snapshot, and the table outlives every process.      *)
(*                                                                         *)
(* Every route handler is an async function: it runs synchronously up to   *)
(* its first `await`, and every awaited storage query or provider call is  *)
(* one later step, so handlers of different requests interleave exactly at *)
(* the awaits.  Strings that the code inspects character by character      *)
(* (phone numbers) are tuples of one-character strings.                    *)
(***************************************************************************)
EXTENDS Integers, Sequences, FiniteSets, TLC

VARIABLES
    schema,     \* column names of the users table that exists in the database
    users,      \* rows of the users table
    now,        \* the clock read by NOW() and new Date(), in days
    pending,    \* verification service: numbers with a code outstanding
    sessions,   \* payment provider: metadata.phone of the checkout sessions created
    owned,      \* telephony provider: numbers purchased by this account
    req         \* the in-flight (or just answered) request of each slot

vars == <<schema, users, now, pending, sessions, owned, req>>

(***************************************************************************)
(* Bounds of the model.                                                    *)
(***************************************************************************)
MaxTime == 2

\* two requests can be in flight at once
Slots == {"r1", "r2"}

(***************************************************************************)
(* Values.                                                                 *)
(***************************************************************************)
\* SQL NULL and JavaScript null/undefined of a nullable value: the value v is <<v>>
NULL == <<>>
Some(v) == <<v>>
\* a phone string that is missing from the request body or the metadata (a phone
\* string is a tuple of characters, and <<>> is the empty string)
UNDEFINED == <<"undefined">>

Digits == {"0", "1", "2", "3", "4", "5", "6", "7", "8", "9"}

\* "5551234567"
RawLocal == <<"5", "5", "5", "1", "2", "3", "4", "5", "6", "7">>
\* "+1 (555) 123-4567"
RawPretty == <<"+", "1", " ", "(", "5", "5", "5", ")", " ", "1", "2", "3", "-", "4", "5", "6", "7">>
\* "+442079460958": the phone of another caller, whom no request of the model is about
OtherPhone == <<"+", "4", "4", "2", "0", "7", "9", "4", "6", "0", "9", "5", "8">>
\* a number of another country as callers write it: "+44 20 7946 0958"
RawSpaced == <<"+", "4", "4", " ", "2", "0", " ", "7", "9", "4", "6", " ", "0", "9", "5", "8">>
\* "abc"
RawAbc == <<"a", "b", "c">>

\* the phone values a request body carries in this model
RawPhones == {UNDEFINED, RawAbc, RawLocal, RawPretty}
Names == {NULL, Some("Alice")}
GoodCode == "000000"
Codes == {NULL, Some(GoodCode), Some("999999")}
ProxyNumbers == {"+15550000001"}
\* a provider with a second number for sale
Stock == ProxyNumbers \cup {"+15550000002"}

Throw(msg) == [ok |-> FALSE, error |-> msg]
Return(v) == [ok |-> TRUE, value |-> v]

\* !phone: the phone is undefined or the empty string
Falsy(phone) == phone = UNDEFINED \/ phone = <<>>

(***************************************************************************)
(* Phone normalization.                                                    *)
(***************************************************************************)
NationalLen == 10
WithCountryLen == 11

RECURSIVE StripNonDigits(_)
\* phone.replace(/\D/g, "")
StripNonDigits(s) ==
    IF s = <<>> THEN <<>>
    ELSE (IF Head(s) \in Digits THEN <<Head(s)>> ELSE <<>>) \o StripNonDigits(Tail(s))

\* phone.startsWith("+")
StartsWithPlus(phone) == Len(phone) > 0 /\ Head(phone) = "+"

\* normalizePhone with the country code left out of the 10-digit rule
normalizePhoneNoCountry(phone) ==
    IF Falsy(phone) THEN Throw("Phone number required.")
    ELSE LET digits == StripNonDigits(phone) IN
         IF Len(digits) = NationalLen THEN Return(<<"+">> \o digits)
         ELSE IF Len(digits) = WithCountryLen /\ Head(digits) = "1" THEN Return(<<"+">> \o digits)
         ELSE IF StartsWithPlus(phone) /\ Len(digits) >= WithCountryLen THEN Return(phone)
         ELSE Throw("Invalid phone format.")

\* normalizePhone with the 11-digit rule returning `+1${digits}` like the 10-digit one
normalizePhoneDoublePrefix(phone) ==
    IF Falsy(phone) THEN Throw("Phone number required.")
    ELSE LET digits == StripNonDigits(phone) IN
         IF Len(digits) = NationalLen THEN Return(<<"+", "1">> \o digits)
         ELSE IF Len(digits) = WithCountryLen /\ Head(digits) = "1"
         THEN Return(<<"+", "1">> \o digits)
         ELSE IF StartsWithPlus(phone) /\ Len(digits) >= WithCountryLen THEN Return(phone)
         ELSE Throw("Invalid phone format.")

\* normalizePhone of the snapshots that check the digit count of a "+" input
normalizePhone(phone) ==
    IF Falsy(phone) THEN Throw("Phone number required.")
    ELSE LET digits == StripNonDigits(phone) IN
         IF Len(digits) = NationalLen THEN Return(<<"+", "1">> \o digits)
         ELSE IF Len(digits) = WithCountryLen /\ Head(digits) = "1" THEN Return(<<"+">> \o digits)
         ELSE IF StartsWithPlus(phone) /\ Len(digits) >= WithCountryLen THEN Return(phone)
         ELSE Throw("Invalid phone format.")

\* the loose normalizePhone without its 11-digit rule
normalizePhoneLooseNoEleven(phone) ==
    IF phone = UNDEFINED THEN Throw("TypeError")
    ELSE LET digits == StripNonDigits(phone) IN
         IF Len(digits) = NationalLen THEN Return(<<"+", "1">> \o digits)
         ELSE IF StartsWithPlus(phone) THEN Return(phone)
         ELSE Throw("Invalid phone format.")

\* normalizePhone of the snapshots that return any "+" input unchanged; an
\* undefined argument makes phone.replace throw a TypeError
normalizePhoneLoose(phone) ==
    IF phone = UNDEFINED THEN Throw("TypeError")
    ELSE LET digits == StripNonDigits(phone) IN
         IF Len(digits) = NationalLen THEN Return(<<"+", "1">> \o digits)
         ELSE IF Len(digits) = WithCountryLen /\ Head(digits) = "1" THEN Return(<<"+">> \o digits)
         ELSE IF StartsWithPlus(phone) THEN Return(phone)
         ELSE Throw("Invalid phone format.")

(***************************************************************************)
(* The snapshots of server.js that serve the lifecycle routes.             *)
(***************************************************************************)
\* src/unnamed/part_000          start-verification, verify; generates the code and
\*                               keeps it in the table, stores the phone as given
StoredCode == "storedcode"
\* src/unnamed/part_004:1-245    start-verification, verify; drops the table at start
Lifecycle == "lifecycle"
\* src/server.js:1-319           + voice-webhook, check-user-status
FastLane == "fastlane"
\* src/unnamed/part_001:110-547  + create-checkout-session, stripe-webhook
Revenue == "revenue"
\* src/unnamed/part_004:247-621  + proxy numbers bought in the stripe-webhook
AirGap == "airgap"
\* src/unnamed/part_004:623-897  create-checkout-session and stripe-webhook only
Checkout == "checkout"
\* src/unnamed/part_002:1-248    stripe-webhook only
Provision == "provision"
\* src/server.js:321-562         stripe-webhook only; sets the columns the table has
SafeColumns == "safecolumns"

Snapshots == {StoredCode, Lifecycle, FastLane, Revenue, AirGap, Checkout, Provision,
              SafeColumns}

\* the routes each snapshot registers
Routes(s) ==
    CASE s \in {StoredCode, Lifecycle} -> {"start-verification", "verify"}
      [] s = FastLane -> {"voice-webhook", "check-user-status", "start-verification", "verify"}
      [] s = Revenue -> {"voice-webhook", "check-user-status", "start-verification", "verify",
                         "create-checkout-session", "stripe-webhook"}
      [] s = AirGap -> {"start-verification", "verify", "create-checkout-session",
                        "proxy-forward", "stripe-webhook"}
      [] s = Checkout -> {"create-checkout-session", "stripe-webhook"}
      [] s \in {Provision, SafeColumns} -> {"stripe-webhook"}

\* the snapshot whose handlers compare the code with the one they stored, where the
\* others ask the verification service
StoresCode(s) == s = StoredCode

\* the snapshots whose normalizePhone returns every "+" input unchanged
LooseSnapshots == {AirGap, Checkout, Provision, SafeColumns}

\* the snapshots whose handlers test `if (!phone)` before normalizing
ChecksMissingField == {Lifecycle, FastLane, Revenue}

\* the snapshots whose getTwilioClient returns null when the environment is unset;
\* in the others twilio(undefined, undefined) throws
NullClientSnapshots == {Lifecycle, FastLane, Revenue}

\* the normalizePhone of snapshot s
Normalize(s, phone) ==
    IF s \in LooseSnapshots THEN normalizePhoneLoose(phone) ELSE normalizePhone(phone)

\* the results of normalizePhone on the request bodies' phones, per snapshot
Normalized ==
    [s \in Snapshots |->
        [phone \in RawPhones \cup {RawSpaced, OtherPhone} |-> Normalize(s, phone)]]

(***************************************************************************)
(* The users table.                                                        *)
(***************************************************************************)
StoredCodeColumns == {"id", "name", "phone", "verified", "verification_code",
                      "code_expires_at", "created_at"}
LifecycleColumns == {"id", "name", "phone", "role", "status", "verified", "verified_at",
                     "created_at"}
FastLaneColumns == LifecycleColumns \cup {"last_seen"}
RevenueColumns == FastLaneColumns \cup {"stripe_customer_id", "stripe_subscription_id"}
ProxyColumns == RevenueColumns \cup {"proxy_number", "proxy_sid", "forwarding_enabled",
                                     "subscription_expires_at"}

\* the columns of the CREATE TABLE statement of snapshot s
SchemaOf(s) ==
    CASE s = StoredCode -> StoredCodeColumns
      [] s = Lifecycle -> LifecycleColumns
      [] s = FastLane -> FastLaneColumns
      [] s = Revenue -> RevenueColumns
      [] OTHER -> ProxyColumns

\* initializeDatabase of snapshot s runs DROP TABLE IF EXISTS first
DropsTable(s) == s = Lifecycle

\* id SERIAL: a value no row of the table has
NextId(tbl) ==
    IF tbl = {} THEN 1
    ELSE 1 + CHOOSE m \in {r.id : r \in tbl} : \A r \in tbl : r.id <= m

\* the row an INSERT creates: the listed columns, every other column at its DEFAULT
NewRow(tbl, name, phone, status, t) ==
    [id |-> NextId(tbl), name |-> name, phone |-> phone, role |-> "caller",
     status |-> status, verified |-> FALSE, verified_at |-> NULL,
     verification_code |-> NULL, code_expires_at |-> NULL,
     stripe_customer_id |-> NULL, stripe_subscription_id |-> NULL,
     proxy_number |-> NULL, proxy_sid |-> NULL, forwarding_enabled |-> TRUE,
     subscription_expires_at |-> NULL, created_at |-> Some(t), last_seen |-> NULL]

\* phone TEXT UNIQUE: the INSERT conflicts when a row has this phone
ConflictOnPhone(tbl, phone) == \E r \in tbl : r.phone = phone

\* INSERT INTO users (name, phone, role, status, verified) VALUES (.., 'caller', status, false)
\* ON CONFLICT (phone) DO UPDATE SET name = EXCLUDED.name, status = .., verified = false
\* the upsert with role = EXCLUDED.role in its DO UPDATE SET list
UpsertUserResetsRole(tbl, name, phone, status, t) ==
    IF ConflictOnPhone(tbl, phone)
    THEN {IF r.phone = phone
          THEN [r EXCEPT !.name = name, !.status = status, !.verified = FALSE,
                         !.role = "caller"]
          ELSE r : r \in tbl}
    ELSE tbl \cup {NewRow(tbl, name, phone, status, t)}

UpsertUser(tbl, name, phone, status, t) ==
    IF ConflictOnPhone(tbl, phone)
    THEN {IF r.phone = phone
          THEN [r EXCEPT !.name = name, !.status = status, !.verified = FALSE]
          ELSE r : r \in tbl}
    ELSE tbl \cup {NewRow(tbl, name, phone, status, t)}

\* the columns the INSERT of start-verification names
UpsertColumns(s) ==
    {"name", "phone", "status", "verified"} \cup (IF s = AirGap THEN {} ELSE {"role"})

\* every snapshot writing the status of the snapshot that drops the table
StartStatusNew(s) == "new"

\* the status start-verification writes
StartStatus(s) == IF s = Lifecycle THEN "new" ELSE "pending_verification"

\* SELECT ... FROM users WHERE phone = $1
SelectByPhone(tbl, phone) == {r \in tbl : r.phone = phone}

(***************************************************************************)
(* Requests.                                                               *)
(***************************************************************************)
NoResp == [status |-> 0, body |-> "none"]
NoEvent == [sig |-> FALSE, type |-> "none", phone |-> UNDEFINED,
            customer |-> NULL, subscription |-> NULL]

\* a slot that serves no request; a handler's locals are the fields of its slot
Idle ==
    [op |-> "idle", snap |-> "none", env |-> FALSE, pc |-> "idle", phone |-> NULL,
     to |-> NULL, name |-> NULL, code |-> NULL, evt |-> NoEvent, purchased |-> NULL,
     expiration |-> NULL, columns |-> {}, effects |-> <<>>, resp |-> NoResp]

\* a slot can take a request when it serves none
Free(slot) ==
    /\ req[slot].pc = "idle"
    /\ slot = "r2" => req["r1"].pc # "idle"

\* the request table once `slot` runs the handler state r
Accept(slot, r) == [req EXCEPT ![slot] = r]

\* res.status(status).json(body): the handler ends
Respond(r, status, body) ==
    [Idle EXCEPT !.op = r.op, !.effects = r.effects,
                 !.pc = "done", !.resp = [status |-> status, body |-> body]]

\* a rejection no try/catch handles: the handler ends and no response is ever sent
Unhandled(r) ==
    [Idle EXCEPT !.op = r.op, !.effects = r.effects, !.pc = "unhandled"]

\* the request records an external call or a storage write it has issued
Did(r, what, arg) == [r EXCEPT !.effects = Append(@, <<what, arg>>)]

\* a statement fails when it names a column the table does not have
ColumnsExist(cols) == cols \subseteq schema

\* the handler state of a request that a process of snapshot s starts to serve on
\* route op
Received(s, op) == [Idle EXCEPT !.op = op, !.snap = s]

\* the request records that its UPDATE .. WHERE phone = $1 changed a row, if it did
Updated(r, tbl) ==
    IF \E u \in tbl : u.phone = r.phone THEN Did(r, "db.update", r.phone) ELSE r

\* the handler makes an external call with argument arg and awaits it at pc
Call(r, what, arg, pc) == [Did(r, what, arg) EXCEPT !.pc = pc]

\* the number a provider is asked about: Twilio reads the digits of `to`
E164(to) == <<"+">> \o StripNonDigits(to)

(***************************************************************************)
(* POST /start-verification                                                *)
(***************************************************************************)
\* getTwilioClient() with the environment unset: null (answered 500) in the
\* snapshots that test the variables, an exception of twilio() in the others
NoClient(s, r) ==
    IF s \in NullClientSnapshots THEN Respond(r, 500, "Twilio not configured.")
    ELSE Respond(r, 400, "username is required")

\* the handler up to its first await: the upsert is issued, or the request is answered
StartVerificationSync(s, env, name, phone) ==
    LET r == Received(s, "start-verification")
        n == Normalized[s][phone]
    IN  IF s \in ChecksMissingField /\ Falsy(phone) THEN Respond(r, 400, "Phone required.")
        ELSE IF ~n.ok THEN Respond(r, 400, n.error)
        ELSE IF ~env THEN NoClient(s, r)
        ELSE [r EXCEPT !.pc = "sv_upsert", !.phone = n.value, !.name = name]

StartVerificationReq(slot, s, env, name, phone) ==
    /\ Free(slot)
    /\ "start-verification" \in Routes(s)
    /\ ~StoresCode(s)
    /\ req' = Accept(slot, StartVerificationSync(s, env, name, phone))
    /\ UNCHANGED <<schema, users, now, pending, sessions, owned>>

\* await pool.query(INSERT ... ON CONFLICT ...)
StartVerificationUpsert(slot) ==
    LET r == req[slot] IN
    /\ r.pc = "sv_upsert"
    /\ \E ok \in BOOLEAN :
          IF ok /\ ColumnsExist(UpsertColumns(r.snap))
          THEN /\ users' = UpsertUser(users, r.name, r.phone, StartStatus(r.snap), now)
               /\ req' = [req EXCEPT ![slot] =
                             Call(Did([r EXCEPT !.name = NULL], "db.upsert", r.phone),
                                  "verify.send", r.phone, "sv_send")]
          ELSE /\ users' = users
               /\ req' = [req EXCEPT ![slot] = Respond(r, 400, "storage error")]
    /\ UNCHANGED <<schema, now, pending, sessions, owned>>

\* await client.verify.v2.services(..).verifications.create({to, channel: "sms"})
StartVerificationSend(slot) ==
    LET r == req[slot] IN
    /\ r.pc = "sv_send"
    /\ \E ok \in BOOLEAN :
          IF ok
          THEN /\ pending' = pending \cup {E164(r.phone)}
               /\ req' = [req EXCEPT ![slot] = Respond(r, 200, "success")]
          ELSE /\ pending' = pending
               /\ req' = [req EXCEPT ![slot] = Respond(r, 400, "provider error")]
    /\ UNCHANGED <<schema, users, now, sessions, owned>>

(***************************************************************************)
(* POST /verify                                                            *)
(***************************************************************************)
\* the handler up to its first await: the code check is issued, or the request is answered
VerifySync(s, env, phone, code) ==
    LET r == [Received(s, "verify") EXCEPT !.code = code]
        n == Normalized[s][phone]
    IN  IF s \in ChecksMissingField /\ (Falsy(phone) \/ code = NULL)
        THEN Respond(r, 400, "Phone and code required.")
        ELSE IF ~n.ok THEN Respond(r, 400, n.error)
        ELSE IF ~env THEN NoClient(s, r)
        ELSE Call([r EXCEPT !.phone = n.value], "verify.check", n.value, "vf_check")

VerifyReq(slot, s, env, phone, code) ==
    /\ Free(slot)
    /\ "verify" \in Routes(s)
    /\ ~StoresCode(s)
    /\ req' = Accept(slot, VerifySync(s, env, phone, code))
    /\ UNCHANGED <<schema, users, now, pending, sessions, owned>>

\* the verification service's answer to verificationChecks.create({to, code}):
\* it rejects the call when no code is outstanding for the number or no code is given
CheckCode(outstanding, to, code) ==
    IF code = NULL \/ E164(to) \notin outstanding THEN "error"
    ELSE IF code = Some(GoodCode) THEN "approved"
    ELSE "pending"

\* the check with the comparison to "approved" weakened: a "pending" answer is
\* taken for an approval
VerifyCheckLenient(slot) ==
    LET r == req[slot] IN
    /\ r.pc = "vf_check"
    /\ \E reachable \in BOOLEAN :
          LET status == IF reachable THEN CheckCode(pending, r.phone, r.code) ELSE "error" IN
          /\ pending' = IF status = "approved" THEN pending \ {E164(r.phone)} ELSE pending
          /\ req' = [req EXCEPT ![slot] =
                        IF status \in {"approved", "pending"}
                        THEN [r EXCEPT !.pc = "vf_update", !.code = NULL]
                        ELSE Respond(r, 400, "provider error")]
    /\ UNCHANGED <<schema, users, now, sessions, owned>>

\* await client.verify.v2.services(..).verificationChecks.create({to, code})
VerifyCheck(slot) ==
    LET r == req[slot] IN
    /\ r.pc = "vf_check"
    /\ \E reachable \in BOOLEAN :
          LET status == IF reachable THEN CheckCode(pending, r.phone, r.code) ELSE "error" IN
          /\ pending' = IF status = "approved" THEN pending \ {E164(r.phone)} ELSE pending
          /\ req' = [req EXCEPT ![slot] =
                        IF status = "approved" THEN [r EXCEPT !.pc = "vf_update", !.code = NULL]
                        ELSE IF status = "pending" THEN Respond(r, 400, "pending")
                        ELSE Respond(r, 400, "provider error")]
    /\ UNCHANGED <<schema, users, now, sessions, owned>>

\* the snapshots whose verify sets role = 'customer'
SetsCustomerRole == {FastLane, Revenue}
\* the snapshots whose verify sets last_seen = NOW()
VerifyTouches == {FastLane, Revenue, AirGap}

\* the columns the UPDATE of verify names
VerifyColumns(s) ==
    {"verified", "verified_at", "status", "phone"}
        \cup (IF s \in SetsCustomerRole THEN {"role"} ELSE {})
        \cup (IF s \in VerifyTouches THEN {"last_seen"} ELSE {})

\* the UPDATE made conditional on the record still being as the check found it:
\* .. WHERE phone = $1 AND verified
MarkVerifiedIfStill(tbl, phone, t, s) ==
    {IF r.phone = phone /\ r.verified
     THEN [r EXCEPT !.verified_at = Some(t), !.status = "verified"]
     ELSE r : r \in tbl}

\* UPDATE users SET verified = true, verified_at = NOW(), status = 'verified'
\*   [, role = 'customer'] [, last_seen = NOW()] WHERE phone = $1
MarkVerified(tbl, phone, t, s) ==
    {IF r.phone = phone
     THEN [r EXCEPT !.verified = TRUE, !.verified_at = Some(t), !.status = "verified",
                    !.role = IF s \in SetsCustomerRole THEN "customer" ELSE @,
                    !.last_seen = IF s \in VerifyTouches THEN Some(t) ELSE @]
     ELSE r : r \in tbl}

\* await pool.query(UPDATE users SET verified = true ...), then the 200 answer
VerifyUpdate(slot) ==
    LET r == req[slot] IN
    /\ r.pc = "vf_update"
    /\ \E ok \in BOOLEAN :
          IF ok /\ ColumnsExist(VerifyColumns(r.snap))
          THEN /\ users' = MarkVerified(users, r.phone, now, r.snap)
               /\ req' = [req EXCEPT ![slot] = Respond(Updated(r, users), 200, "approved")]
          ELSE /\ users' = users
               /\ req' = [req EXCEPT ![slot] = Respond(r, 400, "storage error")]
    /\ UNCHANGED <<schema, now, pending, sessions, owned>>

(***************************************************************************)
(* POST /start-verification and POST /verify of the snapshot that stores   *)
(* the code: no phone is normalized and no verification service is asked.  *)
(***************************************************************************)
\* generateCode(): a six-digit string
GeneratedCodes == {"123456", "999999"}

\* codeExpiration(): 10 minutes after t, which is before the next tick of the clock
codeExpiration(t) == t

\* new Date() > user.code_expires_at
Expired(t, expires) == expires # NULL /\ t > expires[1]

\* INSERT INTO users (name, phone, verification_code, code_expires_at, verified)
\* VALUES ($1, $2, $3, $4, false) ON CONFLICT (phone) DO UPDATE SET name = ..,
\*   verification_code = .., code_expires_at = .., verified = false
StoreCode(tbl, name, phone, code, expires, t) ==
    IF ConflictOnPhone(tbl, phone)
    THEN {IF r.phone = phone
          THEN [r EXCEPT !.name = name, !.verification_code = code,
                         !.code_expires_at = expires, !.verified = FALSE]
          ELSE r : r \in tbl}
    ELSE tbl \cup {[NewRow(tbl, name, phone, "new", t) EXCEPT
                       !.verification_code = code, !.code_expires_at = expires]}

\* the handler up to its first await: the code and its expiry are drawn and the
\* upsert is issued with the phone as it was given, or the request is answered
StoredStartSync(name, phone, code, t) ==
    LET r == Received(StoredCode, "start-verification") IN
    IF Falsy(phone) THEN Respond(r, 400, "Phone number required.")
    ELSE [r EXCEPT !.pc = "ss_upsert", !.phone = phone, !.name = name,
                   !.code = Some(code), !.expiration = Some(codeExpiration(t))]

StoredStartReq(slot, s, name, phone, code) ==
    /\ Free(slot)
    /\ "start-verification" \in Routes(s)
    /\ StoresCode(s)
    /\ req' = Accept(slot, StoredStartSync(name, phone, code, now))
    /\ UNCHANGED <<schema, users, now, pending, sessions, owned>>

\* await pool.query(INSERT ... ON CONFLICT ...), then the call of
\* twilioClient.messages.create with the code in its body
StoredStartUpsert(slot) ==
    LET r == req[slot]
        sent == [r EXCEPT !.name = NULL, !.code = NULL, !.expiration = NULL]
    IN
    /\ r.pc = "ss_upsert"
    /\ \E ok \in BOOLEAN :
          IF ok /\ ColumnsExist({"name", "phone", "verification_code", "code_expires_at",
                                 "verified"})
          THEN /\ users' = StoreCode(users, r.name, r.phone, r.code, r.expiration, now)
               /\ req' = [req EXCEPT ![slot] =
                             Call(Did(sent, "db.upsert", r.phone),
                                  "twilio.messages.create", r.phone, "ss_send")]
          ELSE /\ users' = users
               /\ req' = [req EXCEPT ![slot] =
                             Respond(r, 500, "Failed to start verification.")]
    /\ UNCHANGED <<schema, now, pending, sessions, owned>>

\* await twilioClient.messages.create({body: `.. code is ${code}`, to: phone})
StoredStartSend(slot) ==
    LET r == req[slot] IN
    /\ r.pc = "ss_send"
    /\ \E ok \in BOOLEAN :
          req' = [req EXCEPT ![slot] =
                     IF ok THEN Respond(r, 200, "success")
                     ELSE Respond(r, 500, "Failed to start verification.")]
    /\ UNCHANGED <<schema, users, now, pending, sessions, owned>>

\* the handler up to its first await: the SELECT is issued, or the request is answered
StoredVerifySync(phone, code) ==
    LET r == Received(StoredCode, "verify") IN
    IF Falsy(phone) \/ code = NULL THEN Respond(r, 400, "Phone and code required.")
    ELSE [r EXCEPT !.pc = "sq_select", !.phone = phone, !.code = code]

StoredVerifyReq(slot, s, phone, code) ==
    /\ Free(slot)
    /\ "verify" \in Routes(s)
    /\ StoresCode(s)
    /\ req' = Accept(slot, StoredVerifySync(phone, code))
    /\ UNCHANGED <<schema, users, now, pending, sessions, owned>>

\* user.verification_code and user.code_expires_at of a row of SELECT *: undefined
\* when the table has no such column
StoredCodeOf(u) == IF "verification_code" \in schema THEN u.verification_code ELSE NULL
StoredExpiryOf(u) == IF "code_expires_at" \in schema THEN u.code_expires_at ELSE NULL

\* the handler testing the code of an empty row where it has no row
StoredVerifySelectNoAbsence(slot) ==
    LET r == req[slot]
        rows == SelectByPhone(users, r.phone)
    IN
    /\ r.pc = "sq_select"
    /\ \E ok \in BOOLEAN :
          req' = [req EXCEPT ![slot] =
                     IF ~(ok /\ ColumnsExist({"phone"}))
                     THEN Respond(r, 500, "Verification failed.")
                     ELSE IF rows = {} \/ \E u \in rows : StoredCodeOf(u) # r.code
                     THEN Respond(r, 400, "Invalid code.")
                     ELSE IF \E u \in rows : Expired(now, StoredExpiryOf(u))
                     THEN Respond(r, 400, "Code expired.")
                     ELSE [r EXCEPT !.pc = "sq_update"]]
    /\ UNCHANGED <<schema, users, now, pending, sessions, owned>>

\* await pool.query(SELECT * FROM users WHERE phone = $1), then the tests of the
\* row, the code and the expiry, and the UPDATE is issued
StoredVerifySelect(slot) ==
    LET r == req[slot]
        rows == SelectByPhone(users, r.phone)
    IN
    /\ r.pc = "sq_select"
    /\ \E ok \in BOOLEAN :
          req' = [req EXCEPT ![slot] =
                     IF ~(ok /\ ColumnsExist({"phone"}))
                     THEN Respond(r, 500, "Verification failed.")
                     ELSE IF rows = {} THEN Respond(r, 404, "User not found.")
                     ELSE IF \E u \in rows : StoredCodeOf(u) # r.code
                     THEN Respond(r, 400, "Invalid code.")
                     ELSE IF \E u \in rows : Expired(now, StoredExpiryOf(u))
                     THEN Respond(r, 400, "Code expired.")
                     ELSE [r EXCEPT !.pc = "sq_update"]]
    /\ UNCHANGED <<schema, users, now, pending, sessions, owned>>

\* UPDATE users SET verified = true WHERE phone = $1
MarkVerifiedOnly(tbl, phone) ==
    {IF u.phone = phone THEN [u EXCEPT !.verified = TRUE] ELSE u : u \in tbl}

\* await pool.query(UPDATE users SET verified = true ..), then the 200 answer
StoredVerifyUpdate(slot) ==
    LET r == req[slot] IN
    /\ r.pc = "sq_update"
    /\ \E ok \in BOOLEAN :
          IF ok /\ ColumnsExist({"verified", "phone"})
          THEN /\ users' = MarkVerifiedOnly(users, r.phone)
               /\ req' = [req EXCEPT ![slot] = Respond(Updated(r, users), 200, "success")]
          ELSE /\ users' = users
               /\ req' = [req EXCEPT ![slot] = Respond(r, 500, "Verification failed.")]
    /\ UNCHANGED <<schema, now, pending, sessions, owned>>

(***************************************************************************)
(* POST /create-checkout-session                                           *)
(***************************************************************************)
\* the handler up to its first await: the SELECT is issued, or the request is answered
CheckoutSync(s, env, phone) ==
    LET r == [Received(s, "create-checkout-session") EXCEPT !.env = env]
        n == Normalized[s][phone]
    IN  IF s \in ChecksMissingField /\ Falsy(phone) THEN Respond(r, 400, "Phone required.")
        ELSE IF ~n.ok THEN Respond(r, 400, n.error)
        ELSE [r EXCEPT !.pc = "cc_select", !.phone = n.value]

CheckoutReq(slot, s, env, phone) ==
    /\ Free(slot)
    /\ "create-checkout-session" \in Routes(s)
    /\ req' = Accept(slot, CheckoutSync(s, env, phone))
    /\ UNCHANGED <<schema, users, now, pending, sessions, owned>>

\* the guard with its second operand lost: only a missing record is refused
NotVerifiedMissingOnly(rows) == rows = {}

\* user.rows.length === 0 || !user.rows[0].verified
NotVerified(rows) == rows = {} \/ \E u \in rows : ~u.verified

\* await pool.query(SELECT verified FROM users WHERE phone = $1), then the guard
\* and the call of stripe.checkout.sessions.create
CheckoutSelect(slot) ==
    LET r == req[slot] IN
    /\ r.pc = "cc_select"
    /\ \E ok \in BOOLEAN :
          req' = [req EXCEPT ![slot] =
                     IF ~(ok /\ ColumnsExist({"verified", "phone"}))
                     THEN Respond(r, 400, "storage error")
                     ELSE IF NotVerified(SelectByPhone(users, r.phone))
                     THEN Respond(r, 400, "User must be verified first.")
                     ELSE Call(r, "stripe.sessions.create", r.phone, "cc_session")]
    /\ UNCHANGED <<schema, users, now, pending, sessions, owned>>

\* await stripe.checkout.sessions.create({.. metadata: {phone}}), then
\* getTwilioClient() and the call of client.messages.create
CheckoutSession(slot) ==
    LET r == req[slot] IN
    /\ r.pc = "cc_session"
    /\ \E ok \in BOOLEAN :
          IF ok
          THEN /\ sessions' = sessions \cup {r.phone}
               /\ req' = [req EXCEPT ![slot] =
                             IF r.env THEN Call(r, "twilio.messages.create", r.phone, "cc_sms")
                             ELSE Respond(r, 400, "no Twilio client")]
          ELSE /\ sessions' = sessions
               /\ req' = [req EXCEPT ![slot] = Respond(r, 400, "provider error")]
    /\ UNCHANGED <<schema, users, now, pending, owned>>

\* await client.messages.create({body: session.url, to: formattedPhone})
CheckoutSms(slot) ==
    LET r == req[slot] IN
    /\ r.pc = "cc_sms"
    /\ \E ok \in BOOLEAN :
          req' = [req EXCEPT ![slot] =
                     IF ok THEN Respond(r, 200, "checkout_link_sent")
                     ELSE Respond(r, 400, "provider error")]
    /\ UNCHANGED <<schema, users, now, pending, sessions, owned>>

(***************************************************************************)
(* POST /stripe-webhook                                                    *)
(***************************************************************************)
Completed == "checkout.session.completed"
EventTypes == {Completed, "invoice.paid"}

\* the canonical phone of RawLocal and RawPretty: "+15551234567"
CallerPhone == <<"+", "1">> \o RawLocal

\* the request bodies the route can receive: with a signature that verifies or
\* not, of either type, with or without a phone in the session's metadata
Events ==
    [sig : BOOLEAN, type : EventTypes, phone : {UNDEFINED, CallerPhone},
     customer : {Some("cus_1")}, subscription : {Some("sub_1")}]

\* the payment provider signs an event with metadata.phone = p only for a checkout
\* session that was created with that metadata
Deliverable(evt) == evt.sig /\ evt.phone # UNDEFINED => evt.phone \in sessions

\* constructEvent with the signature never compared: every body is taken as an event
constructEventUnchecked(evt) == Return(evt)

\* stripe.webhooks.constructEvent(req.body, signature, secret): throws unless the
\* signature verifies
constructEvent(evt) == IF evt.sig THEN Return(evt) ELSE Throw("Webhook Error")

\* the snapshot whose webhook only records the subscription, outside any try block
RecordsOnly(s) == s = Revenue
\* the snapshots that answer at once when metadata.phone is missing
ChecksMetadata(s) == s \in {Provision, SafeColumns}
\* the snapshot that reads the columns of the table and sets only those it finds
ProbesColumns(s) == s = SafeColumns
\* the snapshots that normalize metadata.phone
NormalizesMetadata(s) == s = Provision
\* the snapshots that throw when the UPDATE matched no row
ChecksRowCount(s) == s = Provision

Ack(r) == Respond(r, 200, "received")

\* the provisioning part of the handler up to its first await, inside its try block
ProvisionSync(s, env, r) ==
    LET n == IF NormalizesMetadata(s) THEN normalizePhoneLoose(r.evt.phone)
             ELSE Return(r.evt.phone)
    IN  IF ChecksMetadata(s) /\ Falsy(r.evt.phone) THEN Ack(r)
        ELSE IF ~n.ok THEN Ack(r)
        ELSE IF ~env THEN Ack(r)
        ELSE Call([r EXCEPT !.phone = n.value], "twilio.numbers.list", "US", "wh_list")

\* the handler up to its first await
WebhookSync(s, env, evt) ==
    LET r == [Received(s, "stripe-webhook") EXCEPT !.evt = evt]
        e == constructEvent(evt)
    IN  IF ~e.ok THEN Respond(r, 400, e.error)
        ELSE IF e.value.type # Completed THEN Ack(r)
        ELSE IF RecordsOnly(s) THEN [r EXCEPT !.pc = "wh_update", !.phone = e.value.phone]
        ELSE ProvisionSync(s, env, r)

WebhookReq(slot, s, env, evt) ==
    /\ Free(slot)
    /\ "stripe-webhook" \in Routes(s)
    /\ Deliverable(evt)
    /\ req' = Accept(slot, WebhookSync(s, env, evt))
    /\ UNCHANGED <<schema, users, now, pending, sessions, owned>>

\* the handler going on to its confirmation message when the list is empty
WebhookListUnchecked(slot) ==
    LET r == req[slot] IN
    /\ r.pc = "wh_list"
    /\ \E available \in {NULL} \cup {Some(n) : n \in ProxyNumbers \ owned}, ok \in BOOLEAN :
          req' = [req EXCEPT ![slot] =
                     IF ~ok THEN Ack(r)
                     ELSE IF available = NULL
                     THEN Call(r, "twilio.messages.create", r.phone, "wh_sms")
                     ELSE Call([r EXCEPT !.purchased = available], "twilio.numbers.create",
                               available, "wh_buy")]
    /\ UNCHANGED <<schema, users, now, pending, sessions, owned>>

\* await client.availablePhoneNumbers("US").local.list({limit: 1}), then
\* available[0].phoneNumber and the call of client.incomingPhoneNumbers.create
WebhookListFrom(slot, numbers) ==
    LET r == req[slot] IN
    /\ r.pc = "wh_list"
    /\ \E available \in {NULL} \cup {Some(n) : n \in numbers \ owned}, ok \in BOOLEAN :
          req' = [req EXCEPT ![slot] =
                     IF ~ok \/ available = NULL THEN Ack(r)
                     ELSE Call([r EXCEPT !.purchased = available], "twilio.numbers.create",
                               available, "wh_buy")]
    /\ UNCHANGED <<schema, users, now, pending, sessions, owned>>

\* the same, of a provider that has the numbers of ProxyNumbers for sale
WebhookList(slot) == WebhookListFrom(slot, ProxyNumbers)

SubscriptionDays == 30

\* the handler going on to its UPDATE although the purchase was rejected
WebhookBuyGoesOn(slot) ==
    LET r == req[slot] IN
    /\ r.pc = "wh_buy"
    /\ \E ok \in BOOLEAN :
          /\ owned' = IF ok /\ r.purchased[1] \notin owned
                       THEN owned \cup {r.purchased[1]} ELSE owned
          /\ req' = [req EXCEPT ![slot] =
                        [r EXCEPT !.pc = IF ProbesColumns(r.snap) THEN "wh_columns"
                                        ELSE "wh_update",
                                  !.expiration = Some(now + SubscriptionDays)]]
    /\ UNCHANGED <<schema, users, now, pending, sessions>>


\* await client.incomingPhoneNumbers.create({phoneNumber}), then
\* expiration = new Date() + 30 days and the UPDATE (or the query for the
\* columns) is issued
WebhookBuy(slot) ==
    LET r == req[slot] IN
    /\ r.pc = "wh_buy"
    /\ \E ok \in BOOLEAN :
          IF ok /\ r.purchased[1] \notin owned
          THEN /\ owned' = owned \cup {r.purchased[1]}
               /\ req' = [req EXCEPT ![slot] =
                             [r EXCEPT !.pc = IF ProbesColumns(r.snap) THEN "wh_columns"
                                             ELSE "wh_update",
                                       !.expiration = Some(now + SubscriptionDays)]]
          ELSE /\ owned' = owned
               /\ req' = [req EXCEPT ![slot] = Ack(r)]
    /\ UNCHANGED <<schema, users, now, pending, sessions>>

\* the columns the UPDATE of the webhook sets: the subscription, and the proxy
\* number in the snapshots that buy one
SubscriptionColumns ==
    {"role", "status", "stripe_customer_id", "stripe_subscription_id", "last_seen"}
\* the UPDATE with `subscription_expires_at = $5` missing from its SET list
ProvisionColumnsNoExpiry == SubscriptionColumns \cup {"proxy_number", "proxy_sid"}

ProvisionColumns ==
    SubscriptionColumns \cup {"proxy_number", "proxy_sid", "subscription_expires_at"}

\* the columns the UPDATE of request r sets
SetColumns(r) ==
    IF RecordsOnly(r.snap) THEN SubscriptionColumns
    ELSE IF ProbesColumns(r.snap) THEN r.columns
    ELSE ProvisionColumns

\* the columns the UPDATE of request r names
ActivateColumns(r) == SetColumns(r) \cup {"phone"}

\* await pool.query(SELECT column_name FROM information_schema.columns WHERE
\* table_name = 'users'), then addIfExists for each column; the UPDATE is issued if
\* any column was found, the confirmation message otherwise
WebhookColumns(slot) ==
    LET r == req[slot]
        updates == schema \cap ProvisionColumns
    IN
    /\ r.pc = "wh_columns"
    /\ \E ok \in BOOLEAN :
          req' = [req EXCEPT ![slot] =
                     IF ~ok THEN Ack(r)
                     ELSE IF updates = {}
                     THEN Call(r, "twilio.messages.create", r.phone, "wh_sms")
                     ELSE [r EXCEPT !.pc = "wh_update", !.columns = updates]]
    /\ UNCHANGED <<schema, users, now, pending, sessions, owned>>

\* the provider reference (sid) of a purchased number
SidOf(number) == IF number = NULL THEN NULL ELSE Some(<<"sid", number[1]>>)

\* UPDATE users SET role = 'subscriber', status = 'active', stripe_customer_id = $1,
\*   stripe_subscription_id = $2 [, proxy_number = $3, proxy_sid = $4,
\*   subscription_expires_at = $5], last_seen = NOW() WHERE phone = $6
Activate(tbl, r, t) ==
    LET Put(col, new, old) == IF col \in SetColumns(r) THEN new ELSE old IN
    {IF u.phone = r.phone
     THEN [u EXCEPT !.role = Put("role", "subscriber", @),
                    !.status = Put("status", "active", @),
                    !.stripe_customer_id = Put("stripe_customer_id", r.evt.customer, @),
                    !.stripe_subscription_id =
                        Put("stripe_subscription_id", r.evt.subscription, @),
                    !.proxy_number = Put("proxy_number", r.purchased, @),
                    !.proxy_sid = Put("proxy_sid", SidOf(r.purchased), @),
                    !.subscription_expires_at =
                        Put("subscription_expires_at", r.expiration, @),
                    !.last_seen = Put("last_seen", Some(t), @)]
     ELSE u : u \in tbl}

\* the handler after its UPDATE has run: the confirmation message is sent, except
\* in the snapshot that only records the subscription and in the one that throws
\* when no row was updated; client.messages.create rejects a missing `to` at once
AfterActivate(r, rowCount) ==
    IF RecordsOnly(r.snap) THEN Ack(r)
    ELSE IF ChecksRowCount(r.snap) /\ rowCount = 0 THEN Ack(r)
    ELSE IF r.phone = UNDEFINED THEN Ack(r)
    ELSE Call([r EXCEPT !.columns = {}], "twilio.messages.create", r.phone, "wh_sms")

\* the handler when its UPDATE is rejected: caught and logged, except in the
\* snapshot that awaits the query outside any try block
ActivateFailed(r) == IF RecordsOnly(r.snap) THEN Unhandled(r) ELSE Ack(r)

\* await pool.query(UPDATE users SET role = 'subscriber' ...)
WebhookUpdate(slot) ==
    LET r == req[slot]
        hit == SelectByPhone(users, r.phone)
    IN
    /\ r.pc = "wh_update"
    /\ \E ok \in BOOLEAN :
          IF ok /\ ColumnsExist(ActivateColumns(r))
          THEN /\ users' = Activate(users, r, now)
               /\ req' = [req EXCEPT ![slot] =
                             AfterActivate(Updated(r, users), Cardinality(hit))]
          ELSE /\ users' = users
               /\ req' = [req EXCEPT ![slot] = ActivateFailed(r)]
    /\ UNCHANGED <<schema, now, pending, sessions, owned>>

\* await client.messages.create({body: "Quinn Activated ..", to: phone}); the
\* handler answers {received: true} whether it resolves or rejects
WebhookSms(slot) ==
    LET r == req[slot] IN
    /\ r.pc = "wh_sms"
    /\ req' = [req EXCEPT ![slot] = Ack(r)]
    /\ UNCHANGED <<schema, users, now, pending, sessions, owned>>

(***************************************************************************)
(* POST /proxy-forward                                                     *)
(***************************************************************************)
\* a number the service never bought
UnknownNumber == "+15550000009"

\* req.body.To of the calls that come in: missing, a number that can be bought, a
\* number no record can hold
Inbound == {NULL} \cup {Some(n) : n \in ProxyNumbers \cup {UnknownNumber}}

\* the TwiML documents of the route
Say(text) == <<"Say", text>>
Dial(phone) == <<"Dial", phone>>
NotActive == Say("This number is not active.")
ForwardingDisabled == Say("Forwarding disabled.")
SubscriptionExpired == Say("Subscription expired.")
ForwardError == Say("Error.")

\* new Date(value): the date itself, or the epoch for null
DateOf(value) == IF value = NULL THEN 0 ELSE value[1]

\* the checks on rows[0] with the expiry tested before the flag
ForwardExpiryFirst(record, t) ==
    IF DateOf(record.subscription_expires_at) < t THEN SubscriptionExpired
    ELSE IF ~record.forwarding_enabled THEN ForwardingDisabled
    ELSE Dial(record.phone)

\* the decision refusing a record that is not verified
ForwardVerifiedOnly(record, t) ==
    IF ~record.forwarding_enabled THEN ForwardingDisabled
    ELSE IF DateOf(record.subscription_expires_at) < t THEN SubscriptionExpired
    ELSE IF ~record.verified THEN NotActive
    ELSE Dial(record.phone)

\* the checks on rows[0]: `!record.forwarding_enabled`, then
\* `new Date(record.subscription_expires_at) < new Date()`, then the <Dial>
Forward(record, t) ==
    IF ~record.forwarding_enabled THEN ForwardingDisabled
    ELSE IF DateOf(record.subscription_expires_at) < t THEN SubscriptionExpired
    ELSE Dial(record.phone)

\* SELECT phone, forwarding_enabled, subscription_expires_at FROM users
\* WHERE proxy_number = $1 (a comparison with NULL selects no row)
SelectByProxy(tbl, to) == {u \in tbl : to # NULL /\ u.proxy_number = to}

ForwardColumns ==
    {"phone", "forwarding_enabled", "subscription_expires_at", "proxy_number"}

\* the handler up to its await: proxyNumber = req.body.To and the query is issued
ForwardReq(slot, s, to) ==
    /\ Free(slot)
    /\ "proxy-forward" \in Routes(s)
    /\ req' = Accept(slot, [Received(s, "proxy-forward") EXCEPT !.pc = "pf_select",
                                                                !.to = to])
    /\ UNCHANGED <<schema, users, now, pending, sessions, owned>>

\* await pool.query(SELECT ..), then the answer: from rows[0] if there is a row,
\* "not active" if there is none, "Error." from the catch if the query was rejected
ForwardSelect(slot) ==
    LET r == req[slot]
        rows == SelectByProxy(users, r.to)
    IN
    /\ r.pc = "pf_select"
    /\ \E ok \in BOOLEAN :
          IF ok /\ ColumnsExist(ForwardColumns)
          THEN IF rows = {}
               THEN req' = [req EXCEPT ![slot] = Respond(r, 200, NotActive)]
               ELSE \E record \in rows :
                       req' = [req EXCEPT ![slot] = Respond(r, 200, Forward(record, now))]
          ELSE req' = [req EXCEPT ![slot] = Respond(r, 200, ForwardError)]
    /\ UNCHANGED <<schema, users, now, pending, sessions, owned>>

(***************************************************************************)
(* POST /voice-webhook and POST /check-user-status                         *)
(***************************************************************************)
LookupRoutes == {"voice-webhook", "check-user-status"}

\* the columns the SELECT of the route names
LookupColumns(op) ==
    {"name", "verified", "phone"}
        \cup (IF op = "check-user-status" THEN {"role", "status"} ELSE {})

\* the handler up to its first await: the SELECT is issued, or the request is answered
LookupSync(s, op, phone) ==
    LET r == Received(s, op)
        n == Normalized[s][phone]
    IN  IF Falsy(phone) THEN Respond(r, 400, "Phone required.")
        ELSE IF ~n.ok THEN Respond(r, 400, n.error)
        ELSE [r EXCEPT !.pc = "lk_select", !.phone = n.value]

LookupReq(slot, s, op, phone) ==
    /\ Free(slot)
    /\ op \in LookupRoutes \cap Routes(s)
    /\ req' = Accept(slot, LookupSync(s, op, phone))
    /\ UNCHANGED <<schema, users, now, pending, sessions, owned>>

\* the lookup answering 404 when no row has the phone
LookupSelectNotFound(slot) ==
    LET r == req[slot]
        rows == SelectByPhone(users, r.phone)
    IN
    /\ r.pc = "lk_select"
    /\ \E ok \in BOOLEAN :
          req' = [req EXCEPT ![slot] =
                     IF ~(ok /\ ColumnsExist(LookupColumns(r.op)))
                     THEN Respond(r, 400, "storage error")
                     ELSE IF rows = {} THEN Respond(r, 404, "User not found.")
                     ELSE IF \E u \in rows : u.verified THEN [r EXCEPT !.pc = "lk_touch"]
                     ELSE Respond(r, 200, "exists: true, verified: false")]
    /\ UNCHANGED <<schema, users, now, pending, sessions, owned>>

\* await pool.query(SELECT name, verified .. WHERE phone = $1), then the answer
\* for a missing or unverified user, or the UPDATE of last_seen is issued
LookupSelect(slot) ==
    LET r == req[slot]
        rows == SelectByPhone(users, r.phone)
    IN
    /\ r.pc = "lk_select"
    /\ \E ok \in BOOLEAN :
          req' = [req EXCEPT ![slot] =
                     IF ~(ok /\ ColumnsExist(LookupColumns(r.op)))
                     THEN Respond(r, 400, "storage error")
                     ELSE IF rows = {} THEN Respond(r, 200, "exists: false, verified: false")
                     ELSE IF \E u \in rows : u.verified THEN [r EXCEPT !.pc = "lk_touch"]
                     ELSE Respond(r, 200, "exists: true, verified: false")]
    /\ UNCHANGED <<schema, users, now, pending, sessions, owned>>

\* the UPDATE without its WHERE clause
TouchEveryRow(tbl, phone, t) == {[u EXCEPT !.last_seen = Some(t)] : u \in tbl}

\* UPDATE users SET last_seen = NOW() WHERE phone = $1
Touch(tbl, phone, t) ==
    {IF u.phone = phone THEN [u EXCEPT !.last_seen = Some(t)] ELSE u : u \in tbl}

\* await pool.query(UPDATE users SET last_seen = NOW() ...), then the answer
LookupTouch(slot) ==
    LET r == req[slot] IN
    /\ r.pc = "lk_touch"
    /\ \E ok \in BOOLEAN :
          IF ok /\ ColumnsExist({"last_seen", "phone"})
          THEN /\ users' = Touch(users, r.phone, now)
               /\ req' = [req EXCEPT ![slot] =
                             Respond(Updated(r, users), 200, "exists: true, verified: true")]
          ELSE /\ users' = users
               /\ req' = [req EXCEPT ![slot] = Respond(r, 400, "storage error")]
    /\ UNCHANGED <<schema, now, pending, sessions, owned>>

(***************************************************************************)
(* The environment: time passes, and a snapshot's process starts.          *)
(***************************************************************************)
Tick ==
    /\ now < MaxTime
    /\ now' = now + 1
    /\ UNCHANGED <<schema, users, pending, sessions, owned, req>>

\* initializeDatabase of snapshot s, run when its process starts: CREATE TABLE IF NOT
\* EXISTS leaves the existing table as it is; the snapshot that runs DROP TABLE first
\* loses every row and recreates the table with its own columns
InitializeDatabase(s) ==
    /\ DropsTable(s)
    /\ schema' = SchemaOf(s)
    /\ users' = {}
    /\ UNCHANGED <<now, pending, sessions, owned, req>>

\* the row of another caller who started a verification before the first state
OtherRow == NewRow({}, NULL, OtherPhone, "pending_verification", 0)

\* the processes have started against a table with the columns cols that holds
\* rows: no request is in flight, no code is outstanding, no checkout session
\* exists and no number has been bought
InitWith(cols, rows) ==
    /\ schema = cols
    /\ users = rows
    /\ now = 1
    /\ pending = {}
    /\ sessions = {}
    /\ owned = {}
    /\ req = [slot \in Slots |-> Idle]

\* the table has the columns of the latest snapshots, and nobody but the other
\* caller has used the service
Init == InitWith(ProxyColumns, {OtherRow})

\* the handler has ended, with its answer sent or (after an unhandled rejection)
\* never sent: the request leaves the server
Close(slot) ==
    /\ req[slot].pc \in {"done", "unhandled"}
    /\ req' = [req EXCEPT ![slot] = Idle]
    /\ UNCHANGED <<schema, users, now, pending, sessions, owned>>

\* the requests that can arrive: the snapshots that serve them, whether their
\* processes have the Twilio environment set, and the request bodies
AllRequests ==
    [snapshots |-> Snapshots, envs |-> BOOLEAN, names |-> Names, phones |-> RawPhones,
     codes |-> Codes, events |-> Events, lookups |-> LookupRoutes,
     generated |-> GeneratedCodes, inbound |-> Inbound]

\* POST /start-verification and POST /verify: a request arrives, or the handler
\* in the slot takes its next step
Verification(slot, in) ==
    \/ \E s \in in.snapshots, env \in in.envs, name \in in.names, phone \in in.phones :
          StartVerificationReq(slot, s, env, name, phone)
    \/ StartVerificationUpsert(slot)
    \/ StartVerificationSend(slot)
    \/ \E s \in in.snapshots, env \in in.envs, phone \in in.phones, code \in in.codes :
          VerifyReq(slot, s, env, phone, code)
    \/ VerifyCheck(slot)
    \/ VerifyUpdate(slot)

\* POST /start-verification and POST /verify of the snapshot that stores the code
StoredVerification(slot, in) ==
    \/ \E s \in in.snapshots, name \in in.names, phone \in in.phones, code \in in.generated :
          StoredStartReq(slot, s, name, phone, code)
    \/ StoredStartUpsert(slot)
    \/ StoredStartSend(slot)
    \/ \E s \in in.snapshots, phone \in in.phones, code \in in.codes :
          StoredVerifyReq(slot, s, phone, code)
    \/ StoredVerifySelect(slot)
    \/ StoredVerifyUpdate(slot)

\* POST /voice-webhook and POST /check-user-status
Lookups(slot, in) ==
    \/ \E s \in in.snapshots, op \in in.lookups, phone \in in.phones :
          LookupReq(slot, s, op, phone)
    \/ LookupSelect(slot)
    \/ LookupTouch(slot)

\* POST /create-checkout-session
Checkouts(slot, in) ==
    \/ \E s \in in.snapshots, env \in in.envs, phone \in in.phones :
          CheckoutReq(slot, s, env, phone)
    \/ CheckoutSelect(slot)
    \/ CheckoutSession(slot)
    \/ CheckoutSms(slot)

\* POST /stripe-webhook: the event arrives and the subscription is recorded
Payments(slot, in) ==
    \/ \E s \in in.snapshots, env \in in.envs, evt \in in.events : WebhookReq(slot, s, env, evt)
    \/ WebhookUpdate(slot)

\* POST /stripe-webhook: the steps of the snapshots that provision a number
Provisioning(slot) ==
    \/ WebhookList(slot)
    \/ WebhookBuy(slot)
    \/ WebhookSms(slot)

\* POST /proxy-forward
Forwarding(slot, in) ==
    \/ \E s \in in.snapshots, to \in in.inbound : ForwardReq(slot, s, to)
    \/ ForwardSelect(slot)

\* every route of the snapshots that ask the verification service, but the one
\* that only reads the table to answer an inbound call
Serve(slot, in) ==
    \/ Verification(slot, in)
    \/ Lookups(slot, in)
    \/ Checkouts(slot, in)
    \/ Payments(slot, in)
    \/ Provisioning(slot)
    \/ Close(slot)

\* the requests are served one at a time, by processes of any snapshot that asks the
\* verification service, against the same table, while time passes and the snapshot
\* that drops the table may be started again
Next ==
    \/ Serve("r1", AllRequests)
    \/ WebhookColumns("r1")
    \/ Tick
    \/ \E s \in Snapshots : InitializeDatabase(s)

Spec == Init /\ [][Next]_vars

\* the requests that are served two at a time: well-formed ones, by configured
\* processes of the two snapshots that register every route between them
PairRequests ==
    [snapshots |-> {Revenue, AirGap}, envs |-> {TRUE}, names |-> {Some("Alice")},
     phones |-> {RawLocal, RawPretty}, codes |-> Codes \ {NULL},
     events |-> {e \in Events : e.sig /\ e.type = Completed /\ e.phone = CallerPhone},
     lookups |-> {"check-user-status"}]

\* two requests are in flight at once: every await of one is a point where a step
\* of the other can run
NextPair == \E slot \in Slots : Serve(slot, PairRequests)

SpecPair == Init /\ [][NextPair]_vars

\* two requests at once while time passes: the verification routes and the
\* lookups of one snapshot, for one caller
TimedRequests == [PairRequests EXCEPT !.snapshots = {Revenue}, !.phones = {RawLocal}]

NextPairTimed ==
    \/ \E slot \in Slots :
          \/ Verification(slot, TimedRequests)
          \/ Lookups(slot, TimedRequests)
          \/ Close(slot)
    \/ Tick

SpecPairTimed == Init /\ [][NextPairTimed]_vars

\* the requests served by the processes of one snapshot only
Only(s) == [AllRequests EXCEPT !.snapshots = {s}]

\* the snapshot that stores the code, alone against the table it created (the
\* snapshot that follows it drops that table when it starts), asked about phones
\* that are missing or well formed
NextStoredCode ==
    \/ StoredVerification("r1", [Only(StoredCode) EXCEPT !.phones = @ \ {RawAbc}])
    \/ Close("r1")
    \/ Tick

SpecStoredCode == InitWith(StoredCodeColumns, {}) /\ [][NextStoredCode]_vars

\* the same snapshot asked about phones that are missing or no phone number
NextStoredCodeRaw ==
    \/ StoredVerification("r1", [Only(StoredCode) EXCEPT !.phones = {UNDEFINED, RawAbc}])
    \/ Close("r1")
    \/ Tick

SpecStoredCodeRaw == InitWith(StoredCodeColumns, {}) /\ [][NextStoredCodeRaw]_vars

\* the same snapshot serving two requests of one caller at once: every await of
\* one is a point where a step of the other can run
StoredPairRequests ==
    [Only(StoredCode) EXCEPT !.phones = {RawLocal}, !.names = {Some("Alice")},
                             !.codes = Codes \ {NULL}]

NextStoredPair ==
    \E slot \in Slots : StoredVerification(slot, StoredPairRequests) \/ Close(slot)

SpecStoredPair == InitWith(StoredCodeColumns, {}) /\ [][NextStoredPair]_vars

\* the snapshot that drops the table, alone: its process creates the table afresh
\* when it starts
NextLifecycle ==
    \/ Verification("r1", Only(Lifecycle))
    \/ Close("r1")
    \/ Tick
    \/ InitializeDatabase(Lifecycle)

SpecLifecycle == InitWith(LifecycleColumns, {}) /\ [][NextLifecycle]_vars

\* the snapshot that records subscriptions, alone
NextRevenue ==
    \/ Verification("r1", Only(Revenue))
    \/ Lookups("r1", Only(Revenue))
    \/ Checkouts("r1", Only(Revenue))
    \/ Payments("r1", Only(Revenue))
    \/ Close("r1")
    \/ Tick

SpecRevenue == InitWith(RevenueColumns, {OtherRow}) /\ [][NextRevenue]_vars

\* the same snapshot serving a caller who writes their number with spaces
NextRevenueSpaced ==
    \/ Verification("r1", [Only(Revenue) EXCEPT !.phones = {RawSpaced}])
    \/ Checkouts("r1", [Only(Revenue) EXCEPT !.phones = {RawSpaced}])
    \/ Close("r1")
    \/ Tick

SpecRevenueSpaced == InitWith(RevenueColumns, {OtherRow}) /\ [][NextRevenueSpaced]_vars

\* the snapshot that provisions proxy numbers, alone
NextAirGap ==
    \/ Verification("r1", Only(AirGap))
    \/ Checkouts("r1", Only(AirGap))
    \/ Payments("r1", Only(AirGap))
    \/ Provisioning("r1")
    \/ Forwarding("r1", Only(AirGap))
    \/ Close("r1")
    \/ Tick

SpecAirGap == InitWith(ProxyColumns, {OtherRow}) /\ [][NextAirGap]_vars

\* the verification routes of the same snapshot serving a caller who writes one
\* number in two ways, "+442079460958" and "+44 20 7946 0958"
NextAirGapSpaced ==
    \/ Verification("r1", [Only(AirGap) EXCEPT !.phones = {OtherPhone, RawSpaced}])
    \/ Close("r1")
    \/ Tick

SpecAirGapSpaced == InitWith(ProxyColumns, {}) /\ [][NextAirGapSpaced]_vars

\* the dates a subscription can expire on, in the tables the forwarding decision is
\* tried on
ExpiryDates == 0 .. MaxTime + 1

\* the record of the caller once verified, and once a number has been bought for
\* them, with the forwarding flag and the expiry an operator or the passing of time
\* leaves it with
VerifiedRow ==
    [NewRow({OtherRow}, Some("Alice"), CallerPhone, "verified", 0)
       EXCEPT !.verified = TRUE, !.verified_at = Some(0), !.last_seen = Some(0)]

ProvisionedRow(number, enabled, expires) ==
    [VerifiedRow
       EXCEPT !.role = "subscriber", !.status = "active",
              !.stripe_customer_id = Some("cus_1"),
              !.stripe_subscription_id = Some("sub_1"),
              !.proxy_number = Some(number), !.proxy_sid = SidOf(Some(number)),
              !.forwarding_enabled = enabled,
              !.subscription_expires_at = Some(expires), !.last_seen = Some(0)]

\* the tables the forwarding decision is tried on: none or one of the callers
\* has a record, or both have, the caller's with or without a number
ForwardTables ==
    {{}, {OtherRow}, {OtherRow, VerifiedRow}} \cup
    {{OtherRow, ProvisionedRow(n, enabled, expires)} :
        n \in ProxyNumbers, enabled \in BOOLEAN, expires \in ExpiryDates}

\* the route that decides where an inbound call goes, alone, on every such table
NextForward ==
    \/ Forwarding("r1", Only(AirGap))
    \/ Close("r1")
    \/ Tick

\* the numbers the records of a table hold have been bought
InitForward ==
    /\ schema = ProxyColumns
    /\ users \in ForwardTables
    /\ now = 1
    /\ pending = {}
    /\ sessions = {CallerPhone}
    /\ owned = {u.proxy_number[1] : u \in {v \in users : v.proxy_number # NULL}}
    /\ req = [slot \in Slots |-> Idle]

SpecForward == InitForward /\ [][NextForward]_vars

\* the snapshot that only provisions, alone: the caller is verified and has a
\* checkout session, whose events are delivered and redelivered
InitProvision ==
    /\ schema = ProxyColumns
    /\ users \in {{VerifiedRow}, {OtherRow, VerifiedRow}}
    /\ now = 1
    /\ pending = {}
    /\ sessions = {CallerPhone}
    /\ owned = {}
    /\ req = [slot \in Slots |-> Idle]

NextProvision ==
    \/ Payments("r1", Only(Provision))
    \/ WebhookListFrom("r1", Stock)
    \/ WebhookBuy("r1")
    \/ WebhookSms("r1")
    \/ Close("r1")
    \/ Tick

SpecProvision == InitProvision /\ [][NextProvision]_vars

\* the snapshot that asks for the columns before its UPDATE, alone, on the table
\* it creates itself or on the table an earlier snapshot created and its own
\* CREATE TABLE IF NOT EXISTS has left as it was
InitSafeColumns ==
    /\ schema \in {ProxyColumns, RevenueColumns}
    /\ users \in {{VerifiedRow}, {OtherRow, VerifiedRow}}
    /\ now = 1
    /\ pending = {}
    /\ sessions = {CallerPhone}
    /\ owned = {}
    /\ req = [slot \in Slots |-> Idle]

NextSafeColumns ==
    \/ Payments("r1", Only(SafeColumns))
    \/ Provisioning("r1")
    \/ WebhookColumns("r1")
    \/ Close("r1")
    \/ Tick

SpecSafeColumns == InitSafeColumns /\ [][NextSafeColumns]_vars

\* a subscription from its purchase to the days around its expiry: the caller's
\* checkout is completed, calls arrive on the forwarding number, and the caller
\* verifies again and is looked up meanwhile
SubscriptionRequests ==
    [Only(AirGap) EXCEPT !.envs = {TRUE}, !.names = {Some("Alice")}, !.phones = {RawLocal},
                         !.codes = {Some(GoodCode)},
                         !.events = {e \in Events : e.sig /\ e.type = Completed
                                                     /\ e.phone = CallerPhone}]

\* the rest of the subscription's month passes
Month ==
    /\ now <= MaxTime
    /\ now' = now + SubscriptionDays - 1
    /\ UNCHANGED <<schema, users, pending, sessions, owned, req>>

\* a day passes at the end of the subscription
DayAfter ==
    /\ now >= SubscriptionDays
    /\ now < SubscriptionDays + MaxTime
    /\ now' = now + 1
    /\ UNCHANGED <<schema, users, pending, sessions, owned, req>>

NextSubscription ==
    \/ Payments("r1", SubscriptionRequests)
    \/ Provisioning("r1")
    \/ Verification("r1", SubscriptionRequests)
    \/ Lookups("r1", [SubscriptionRequests EXCEPT !.snapshots = {Revenue}])
    \/ Forwarding("r1", SubscriptionRequests)
    \/ Close("r1")
    \/ Tick
    \/ Month
    \/ DayAfter

SpecSubscription == InitProvision /\ [][NextSubscription]_vars

(***************************************************************************)
(* normalizePhone on its own, applied to strings of every accepted and     *)
(* refused shape.                                                          *)
(***************************************************************************)
\* the longest digit content of the strings normalizePhone is tried on
MaxDigits == 12

\* the digits a number is filled up with after its leading ones
Fill(k) == [i \in 1 .. k |-> IF i % 2 = 1 THEN "2" ELSE "7"]

\* the digit contents: up to two leading digits, each 0, 1 or 5, then the filling
DigitStrings ==
    UNION {{[i \in 1 .. lead |-> f[i]] \o Fill(n - lead) : f \in [1 .. 2 -> {"0", "1", "5"}]} :
              lead \in 0 .. 2, n \in 2 .. MaxDigits}
    \cup {<<>>, <<"1">>, <<"5">>}

\* the ways a caller writes the digits d: bare, with a "+", with brackets and a
\* space, with a "+" and a space after the first digit
Written(d) ==
    {d, <<"+">> \o d,
     IF Len(d) > 3 THEN <<"(">> \o SubSeq(d, 1, 3) \o <<")", " ">> \o SubSeq(d, 4, Len(d))
     ELSE d \o <<"-">>,
     IF Len(d) > 1 THEN <<"+", Head(d), " ">> \o Tail(d) ELSE <<"+", " ">> \o d}

\* the strings normalizePhone is tried on
RawStrings == UNION {Written(d) : d \in DigitStrings} \cup {RawAbc, RawLocal, RawPretty, OtherPhone}

\* a caller of normalizePhone in snapshot s is about to call it with `phone`
Calling(s, phone) ==
    [Idle EXCEPT !.op = "normalizePhone", !.snap = s, !.pc = "nz_call", !.phone = phone]

\* normalizePhone(phone) returns or throws: the outcome is kept with the argument
NormalizePhone(slot) ==
    LET r == req[slot] IN
    /\ r.pc = "nz_call"
    /\ req' = [req EXCEPT ![slot] =
                  [r EXCEPT !.pc = "nz_done", !.resp = Normalize(r.snap, r.phone)]]
    /\ UNCHANGED <<schema, users, now, pending, sessions, owned>>

\* normalizePhone is called again with the value it returned
Renormalize(slot) ==
    LET r == req[slot] IN
    /\ r.pc = "nz_done"
    /\ r.resp.ok
    /\ req' = [req EXCEPT ![slot] =
                  [r EXCEPT !.pc = "nz_again", !.phone = r.resp.value,
                            !.resp = Normalize(r.snap, r.resp.value)]]
    /\ UNCHANGED <<schema, users, now, pending, sessions, owned>>

InitNormalize ==
    /\ schema = ProxyColumns
    /\ users = {}
    /\ now = 1
    /\ pending = {}
    /\ sessions = {}
    /\ owned = {}
    /\ \E s \in Snapshots \ {StoredCode}, phone \in RawStrings :
          req = [slot \in Slots |-> IF slot = "r1" THEN Calling(s, phone) ELSE Idle]

NextNormalize == NormalizePhone("r1") \/ Renormalize("r1")

\* normalizePhone of every snapshot that has one, on every string of RawStrings
SpecNormalize == InitNormalize /\ [][NextNormalize]_vars

(***************************************************************************)
(* The answers the properties name.                                        *)
(***************************************************************************)
\* res.status(400).send(`Webhook Error: ..`)
SignatureInvalid == [status |-> 400, body |-> "Webhook Error"]
\* res.json({received: true})
Acknowledged == [status |-> 200, body |-> "received"]
\* res.status(400).json({error: "User must be verified first."})
NotVerifiedAnswer == [status |-> 400, body |-> "User must be verified first."]

\* the handler in `slot` takes a step
Steps(slot) == req'[slot] # req[slot]

\* the rows of the table for a phone
RowsOf(tbl, phone) == {u \in tbl : u.phone = phone}

(***************************************************************************)
(* Properties.                                                             *)
(***************************************************************************)

\* C1: when the signature of the event does not verify, POST /stripe-webhook
\* answers 400 "Webhook Error" at once, whatever the payload and the table hold:
\* the handler has ended, it has issued no telephony call (no listing, no
\* purchase, no message) and no statement, and no record has changed.
C1_InvalidSignatureShortCircuits ==
    [][\A slot \in Slots :
          (req[slot].pc = "idle" /\ req'[slot].op = "stripe-webhook")
              => \/ /\ req'[slot].pc = "done"
                    /\ req'[slot].resp = SignatureInvalid
                    /\ req'[slot].effects = <<>>
                    /\ UNCHANGED <<users, owned, pending, sessions>>
                 \/ \A s \in Snapshots, env \in BOOLEAN, evt \in Events :
                       ~(~evt.sig /\ WebhookReq(slot, s, env, evt))]_vars

\* C1: a forged event for a verified caller has been refused
C1_Witness ==
    \E slot \in Slots :
        /\ req[slot].op = "stripe-webhook"
        /\ req[slot].resp = SignatureInvalid
        /\ \E u \in users : u.phone = CallerPhone /\ u.verified

\* C2: once the signature check has passed, POST /stripe-webhook ends with the
\* answer {received: true}, whatever fails downstream: a handler of the route that
\* has ended without refusing the signature has acknowledged the event.
C2_AlwaysAcknowledged ==
    \A slot \in Slots :
        (/\ req[slot].op = "stripe-webhook"
         /\ req[slot].pc \in {"done", "unhandled"}
         /\ req[slot].resp # SignatureInvalid)
            => req[slot].resp = Acknowledged

\* the phone has no record, or a record with verified = false
Unverified(phone) == \A u \in users : u.phone = phone => ~u.verified

\* C3: when the lookup of POST /create-checkout-session finds the phone unverified
\* (no record, or verified = false), the request fails: it is answered 400 "User
\* must be verified first." (or with the storage's error when the lookup itself
\* fails), the handler ends having requested no checkout session and sent no
\* message, and nothing changes.
C3_UnverifiedCheckoutRefused ==
    [][\A slot \in Slots :
          (req[slot].pc = "cc_select" /\ Steps(slot) /\ Unverified(req[slot].phone))
              => /\ req'[slot].pc = "done"
                 /\ req'[slot].resp.status = 400
                 /\ req'[slot].resp.body \in {NotVerifiedAnswer.body, "storage error"}
                 /\ req'[slot].effects = <<>>
                 /\ UNCHANGED <<users, sessions, owned, pending>>]_vars

\* C3: a checkout for a caller whose record exists with verified = false has been
\* refused as not verified
C3_Witness ==
    \E slot \in Slots :
        /\ req[slot].op = "create-checkout-session"
        /\ req[slot].resp = NotVerifiedAnswer
        /\ \E u \in users : u.phone = CallerPhone /\ ~u.verified
        /\ sessions = {}

\* the canonical phone of a stored phone: what normalizePhone returns for it
Canonical(phone) ==
    LET n == normalizePhone(phone) IN IF n.ok THEN n.value ELSE phone

\* C4: in every reachable state the table holds at most one record per canonical
\* phone: two start-verification requests whose phones normalize to the same
\* canonical phone leave one record for it.
C4_OneRecordPerPhone ==
    \A u, v \in users : Canonical(u.phone) = Canonical(v.phone) => u = v

\* C5: when the upsert of POST /start-verification has run, the table holds exactly
\* one record for the canonical phone, with the name of the request, status =
\* pending_verification and verified = false, whatever the record was before.
C5_StartVerificationResets ==
    [][\A slot \in Slots :
          (req[slot].pc = "sv_upsert" /\ req'[slot].pc = "sv_send")
              => /\ Cardinality(RowsOf(users', req[slot].phone)) = 1
                 /\ \A u \in RowsOf(users', req[slot].phone) :
                       /\ u.name = req[slot].name
                       /\ u.status = "pending_verification"
                       /\ u.verified = FALSE]_vars

\* C6: when the provider has approved the code and the UPDATE of POST /verify has
\* run, the request is answered 200 and the record of the canonical phone has
\* verified = true, verified_at = now, status = verified, last_seen = now and
\* role = customer, the last two wherever the table has the column.
C6_ApprovedCodeVerifies ==
    [][\A slot \in Slots :
          (req[slot].pc = "vf_update" /\ req'[slot].pc = "done" /\ req'[slot].resp.status = 200)
              => \A u \in RowsOf(users', req[slot].phone) :
                    /\ u.verified = TRUE
                    /\ u.verified_at = Some(now)
                    /\ u.status = "verified"
                    /\ "last_seen" \in schema => u.last_seen = Some(now)
                    /\ "role" \in schema => u.role = "customer"]_vars

\* C7: when the provider answers the check of POST /verify with anything but
\* "approved" (a "pending" status, or an error), the request fails with 400, the
\* handler ends, and every field of every record is as before.
C7_RejectedCodeChangesNothing ==
    [][\A slot \in Slots :
          (/\ req[slot].pc = "vf_check"
           /\ Steps(slot)
           /\ CheckCode(pending, req[slot].phone, req[slot].code) # "approved")
              => /\ req'[slot].pc = "done"
                 /\ req'[slot].resp.status = 400
                 /\ req'[slot].effects = req[slot].effects
                 /\ users' = users]_vars

\* C7: a wrong code for a caller with an outstanding verification has been refused
C7_Witness ==
    \E slot \in Slots :
        /\ req[slot].op = "verify"
        /\ req[slot].resp = [status |-> 400, body |-> "pending"]
        /\ E164(CallerPhone) \in pending
        /\ \E u \in users : u.phone = CallerPhone

\* the record carries a subscription
Subscribed(u) ==
    \/ u.stripe_customer_id # NULL
    \/ u.stripe_subscription_id # NULL
    \/ u.subscription_expires_at # NULL

\* C8: in every reachable state, every record with a subscription present
\* (customer reference, subscription reference or expiry set) has verified = true.
C8_SubscriptionImpliesVerified == \A u \in users : Subscribed(u) => u.verified

\* C9: in every reachable state, every record with role = subscriber has
\* status = active.
C9_SubscriberImpliesActive == \A u \in users : u.role = "subscriber" => u.status = "active"

\* C10: in every reachable state, under any interleaving of the requests, every
\* record with verified = true has verified_at set and status verified or active.
C10_VerifiedImpliesVerifiedAt ==
    \A u \in users : u.verified => u.verified_at # NULL /\ u.status \in {"verified", "active"}

\* the record carries a proxy: its number and the provider's reference are set
HasProxy(u) == u.proxy_number # NULL /\ u.proxy_sid # NULL

\* the record carries a whole subscription
FullySubscribed(u) ==
    /\ u.stripe_customer_id # NULL
    /\ u.stripe_subscription_id # NULL
    /\ u.subscription_expires_at # NULL

\* C11: in every reachable state, every record with a proxy present (number and
\* provider reference set) has a subscription present (customer reference,
\* subscription reference and expiry set).
C11_ProxyImpliesSubscription == \A u \in users : HasProxy(u) => FullySubscribed(u)

\* C11: a record holds a purchased number, and a webhook has ended
C11_Witness ==
    /\ \E u \in users : HasProxy(u) /\ u.phone = CallerPhone
    /\ \E slot \in Slots : req[slot].op = "stripe-webhook" /\ req[slot].pc = "done"

\* C12: for every table and every inbound number, the answer of POST /proxy-forward
\* is "not active" when no record holds the number; else "forwarding disabled"
\* when the record's flag is off, expired or not; else "subscription expired" when
\* its expiry is before now; else the <Dial> of the record's own phone. (A lookup
\* the storage rejects reads no table: it is answered "Error.")
C12_DecideForward ==
    [][\A slot \in Slots :
          req[slot].pc = "pf_select" /\ Steps(slot) =>
             LET held == {u \in users : req[slot].to # NULL /\ u.proxy_number = req[slot].to}
                 answer == req'[slot].resp.body
             IN  \/ answer = ForwardError
                 \/ held = {} /\ answer = NotActive
                 \/ \E u \in held :
                       IF ~u.forwarding_enabled THEN answer = ForwardingDisabled
                       ELSE IF u.subscription_expires_at # NULL
                               /\ u.subscription_expires_at[1] < now
                       THEN answer = SubscriptionExpired
                       ELSE /\ u.subscription_expires_at # NULL
                            /\ answer = Dial(u.phone)]_vars

\* C12: a call to the number of a record whose forwarding is off and whose
\* subscription has expired was answered "forwarding disabled"
C12_Witness ==
    /\ req["r1"].op = "proxy-forward" /\ req["r1"].pc = "done"
    /\ req["r1"].resp.body = ForwardingDisabled
    /\ \E u \in users : /\ u.proxy_number # NULL /\ ~u.forwarding_enabled
                        /\ u.subscription_expires_at[1] < now

\* the request in the slot has had its UPDATE run and change a row in this step
UpdateRan(slot) ==
    LET Ran(r) == \E i \in DOMAIN r.effects : r.effects[i] = <<"db.update", req[slot].phone>>
    IN  Ran(req'[slot]) /\ ~Ran(req[slot])

\* C13: when the webhook has passed the signature check, has a correlation phone
\* and has bought a number, the expiry it computes is now + 30 days, and its UPDATE
\* leaves the record of that phone with role = subscriber, status = active, the
\* customer and subscription references of the event, that expiry, the purchased
\* number with its provider reference, and lastSeenAt = now.
C13_PurchasePersisted ==
    [][\A slot \in Slots :
          LET r == req[slot] IN
          /\ r.pc = "wh_buy" /\ owned' # owned =>
                req'[slot].expiration = Some(now + SubscriptionDays)
          /\ r.pc = "wh_update" /\ r.purchased # NULL /\ UpdateRan(slot) =>
                \A u \in users' :
                   u.phone = r.phone =>
                      /\ u.role = "subscriber" /\ u.status = "active"
                      /\ u.stripe_customer_id = r.evt.customer
                      /\ u.stripe_subscription_id = r.evt.subscription
                      /\ u.subscription_expires_at = r.expiration
                      /\ u.proxy_number = r.purchased
                      /\ u.proxy_sid = SidOf(r.purchased)
                      /\ u.last_seen = Some(now)]_vars

\* a correctly signed checkout-completed event that carries no correlation phone
NoPhoneEvent(evt) == evt.sig /\ evt.type = Completed /\ evt.phone = UNDEFINED

\* the handler has called no provider and changed no row, and if it has ended it
\* has acknowledged
Quiet(r) ==
    /\ r.effects = <<>>
    /\ r.pc # "unhandled"
    /\ r.pc = "done" => r.resp = Acknowledged

\* C14: a correctly signed checkout-completed event without a correlation phone is
\* a no-op: from its arrival to its answer the handler lists and buys no number,
\* changes no record and sends no message, and its answer is the acknowledgment.
C14_NoPhoneIsNoOp ==
    [][\A slot \in Slots :
          /\ Free(slot) /\ Steps(slot) /\ req'[slot].op = "stripe-webhook" =>
                \/ Quiet(req'[slot])
                \/ \A s \in Snapshots, env \in BOOLEAN, evt \in Events :
                      ~(NoPhoneEvent(evt) /\ WebhookReq(slot, s, env, evt))
          /\ req[slot].op = "stripe-webhook" /\ NoPhoneEvent(req[slot].evt) /\ Steps(slot) =>
                Quiet(req'[slot]) /\ users' = users /\ owned' = owned]_vars

\* the provider has no number left to sell
NoNumbersAvailable == ProxyNumbers \subseteq owned

\* C15: when the provider has no free number, the webhook's provisioning ends at
\* the answer to its list request: it buys nothing, leaves every record as it was,
\* sends no confirmation message, and still acknowledges.
C15_NoNumberNoPurchase ==
    [][\A slot \in Slots :
          req[slot].pc = "wh_list" /\ NoNumbersAvailable /\ Steps(slot) =>
             /\ req'[slot].pc = "done"
             /\ req'[slot].resp = Acknowledged
             /\ req'[slot].effects = req[slot].effects
             /\ users' = users
             /\ owned' = owned]_vars

\* C15: with no number left, a webhook that asked for the list has ended having
\* issued nothing but that request
C15_Witness ==
    /\ NoNumbersAvailable
    /\ req["r1"].op = "stripe-webhook" /\ req["r1"].pc = "done"
    /\ req["r1"].effects = <<<<"twilio.numbers.list", "US">>>>
    /\ req["r1"].resp = Acknowledged

\* the digit content of a raw input, as the contract of normalize states it
DigitsOf(raw) == SelectSeq(raw, LAMBDA c : c \in Digits)

\* normalizePhone has been called in the slot and its outcome is known
Normalized1(slot) == req[slot].op = "normalizePhone" /\ req[slot].pc \in {"nz_done", "nz_again"}

\* C16: for every raw input whose digit content is exactly 10 digits, normalize
\* returns "+1" followed by those digits.
C16_TenDigits ==
    \A slot \in Slots :
       Normalized1(slot) /\ Len(DigitsOf(req[slot].phone)) = 10 =>
          req[slot].resp = Return(<<"+", "1">> \o DigitsOf(req[slot].phone))

\* C16: a 10-digit input written with brackets has been normalized
C16_Witness ==
    /\ Normalized1("r1")
    /\ Len(DigitsOf(req["r1"].phone)) = 10 /\ Head(req["r1"].phone) = "("
    /\ req["r1"].resp.ok

\* C17: for every raw input whose digit content is exactly 11 digits starting with
\* 1, normalize returns "+" followed by those digits.
C17_ElevenDigits ==
    \A slot \in Slots :
       LET d == DigitsOf(req[slot].phone) IN
       Normalized1(slot) /\ Len(d) = 11 /\ Head(d) = "1" =>
          req[slot].resp = Return(<<"+">> \o d)

\* C17: an 11-digit input starting with 1, written without a "+", has been normalized
C17_Witness ==
    /\ Normalized1("r1")
    /\ Len(DigitsOf(req["r1"].phone)) = 11 /\ Head(req["r1"].phone) = "1"
    /\ req["r1"].snap \in LooseSnapshots
    /\ req["r1"].resp.ok

\* the raw input matches one of the accepting rules of the contract
Accepted(raw) ==
    LET d == DigitsOf(raw) IN
    \/ Len(d) = 10
    \/ Len(d) = 11 /\ Head(d) = "1"
    \/ Len(raw) > 0 /\ Head(raw) = "+" /\ Len(d) >= 11

\* C18: normalize fails with InvalidPhoneFormat on every (non-empty) raw input that
\* matches none of the accepting rules, "abc" and every "+" input with fewer than
\* 10 digits among them.
C18_OtherwiseInvalid ==
    \A slot \in Slots :
       Normalized1(slot) /\ req[slot].phone # <<>> /\ ~Accepted(req[slot].phone) =>
          req[slot].resp = Throw("Invalid phone format.")

\* a canonical phone: "+" followed by digits only, and at least one
CanonicalPhone(phone) ==
    /\ Len(phone) > 1
    /\ Head(phone) = "+"
    /\ \A i \in 2 .. Len(phone) : phone[i] \in Digits

\* C19: whenever normalize returns a value, the value is a canonical phone: "+"
\* followed only by digits.
C19_AlwaysCanonical ==
    \A slot \in Slots :
       Normalized1(slot) /\ req[slot].resp.ok => CanonicalPhone(req[slot].resp.value)

\* "+1" followed by exactly ten digits
CanonicalUS(phone) ==
    /\ Len(phone) = 12
    /\ SubSeq(phone, 1, 2) = <<"+", "1">>
    /\ \A i \in 3 .. 12 : phone[i] \in Digits

\* C20: normalize returns every "+1" and ten digits as it is, so that normalizing
\* the result of a normalization that gave such a phone gives it again.
C20_IdempotentOnCanonical ==
    \A slot \in Slots :
       Normalized1(slot) /\ CanonicalUS(req[slot].phone) =>
          req[slot].resp = Return(req[slot].phone)

\* C20: the result of a first normalization, "+1" and ten digits, has been
\* normalized again
C20_Witness ==
    /\ req["r1"].op = "normalizePhone" /\ req["r1"].pc = "nz_again"
    /\ CanonicalUS(req["r1"].phone)
    /\ req["r1"].resp.ok

\* the table holds the record a started verification leaves for the phone
AwaitingCode(tbl, phone) ==
    \E u \in tbl : u.phone = phone /\ u.status = "pending_verification" /\ ~u.verified

\* C21: when StartVerification fails because the verification provider is
\* misconfigured (its environment is unset) or unreachable (its call is
\* rejected), the upsert has taken effect all the same: a record of the canonical
\* phone exists with status = pending_verification and verified = false.
C21_ProviderFailureKeepsUpsert ==
    [][\A slot \in Slots :
          /\ Free(slot) /\ Steps(slot) /\ req'[slot].op = "start-verification" =>
                \A s \in Snapshots, name \in Names, phone \in RawPhones :
                   StartVerificationReq(slot, s, FALSE, name, phone)
                   /\ req'[slot] = NoClient(s, Received(s, "start-verification"))
                      => AwaitingCode(users', Normalize(s, phone).value)
          /\ req[slot].pc = "sv_send" /\ Steps(slot)
             /\ req'[slot].resp = [status |-> 400, body |-> "provider error"]
                => AwaitingCode(users', req[slot].phone)]_vars

\* the phone of a request body is missing or matches no accepting rule
BadPhone(phone) == Falsy(phone) \/ ~Accepted(phone)

\* the request was refused at once: a 400 answer, no statement and no provider call
Reported(r) == r.pc = "done" /\ r.resp.status = 400 /\ r.effects = <<>>

\* C22: StartVerification, CheckVerification and CreateCheckoutSession answer a
\* request whose phone is missing or no valid phone number, and CheckVerification
\* one whose code is missing, with an error before any record is created or
\* changed and before any provider is called.
C22_ValidationFirst ==
    [][\A slot \in Slots :
          Free(slot) /\ Steps(slot) /\ ~Reported(req'[slot]) =>
             \A s \in Snapshots, env \in BOOLEAN, phone \in RawPhones :
                /\ BadPhone(phone) =>
                      /\ \A name \in Names :
                            /\ ~StartVerificationReq(slot, s, env, name, phone)
                            /\ \A code \in GeneratedCodes :
                                  ~StoredStartReq(slot, s, name, phone, code)
                      /\ ~CheckoutReq(slot, s, env, phone)
                /\ \A code \in Codes :
                      BadPhone(phone) \/ code = NULL =>
                         /\ ~VerifyReq(slot, s, env, phone, code)
                         /\ ~StoredVerifyReq(slot, s, phone, code)]_vars

\* a lookup is being served in the slot
LookingUp(slot) == req[slot].op \in LookupRoutes

\* C23: no step of Lookup (voice webhook) or CheckStatus creates or removes a
\* record, and none changes any field of any record but lastSeenAt of the record
\* with the phone it looked up.
C23_LookupFrame ==
    [][\A slot \in Slots :
          LookingUp(slot) /\ Steps(slot) =>
             /\ {u.id : u \in users'} = {u.id : u \in users}
             /\ \A u \in users :
                   \E v \in users' :
                      /\ v = [u EXCEPT !.last_seen = v.last_seen]
                      /\ u.phone # req[slot].phone => v = u]_vars

\* C23: a lookup has set lastSeenAt of the caller's record, next to another record
C23_Witness ==
    /\ req["r1"].op \in LookupRoutes /\ req["r1"].pc = "done"
    /\ req["r1"].effects = <<<<"db.update", CallerPhone>>>>
    /\ \E u \in users : u.phone = CallerPhone /\ u.last_seen = Some(now)
    /\ \E u \in users : u.phone # CallerPhone

\* the answers of a lookup
NoSuchUser == [status |-> 200, body |-> "exists: false, verified: false"]
StorageError == [status |-> 400, body |-> "storage error"]

\* C24: a Lookup or CheckStatus for a valid phone that no record has is answered
\* 200 with exists = false and verified = false, the table left as it was; the
\* only error it can be answered with is that of a query the storage rejected.
C24_AbsenceIsNotAnError ==
    [][\A slot \in Slots :
          /\ req[slot].pc = "lk_select" /\ Steps(slot)
          /\ \A u \in users : u.phone # req[slot].phone
          => /\ req'[slot].pc = "done"
             /\ req'[slot].resp \in {NoSuchUser, StorageError}
             /\ req'[slot].effects = <<>>
             /\ users' = users]_vars

\* C24: a lookup was answered exists = false
C24_Witness ==
    /\ req["r1"].op \in LookupRoutes /\ req["r1"].pc = "done"
    /\ req["r1"].resp = NoSuchUser
    /\ \A u \in users : u.phone # CallerPhone

\* the answer 200 with the given body
Ok(body) == [status |-> 200, body |-> body]

\* C25: end to end, each request of the sequence that succeeds leaves what the
\* next one needs. StartVerification of "5551234567" is about "+15551234567" and,
\* once answered, has left its record with status pending_verification;
\* CheckVerification, once approved, leaves the record it finds verified with
\* status verified; CreateCheckoutSession, once answered, has created the session
\* of that phone and then sent it the message; the webhook computes the expiry
\* now + 30 days on the purchase and its UPDATE leaves role = subscriber,
\* status = active, the purchased number and that expiry.
C25_EndToEnd ==
    [][\A slot \in Slots :
          LET r == req[slot]
              q == req'[slot]
          IN
          /\ Free(slot) /\ q.pc = "sv_upsert" /\ q.name = Some("Alice") =>
                \/ q.phone = CallerPhone
                \/ ~StartVerificationReq(slot, q.snap, TRUE, q.name, RawLocal)
          /\ r.pc = "sv_send" /\ q.resp = Ok("success") => AwaitingCode(users', r.phone)
          /\ r.pc = "vf_update" /\ q.resp = Ok("approved") =>
                \A u \in users' : u.phone = r.phone => u.verified /\ u.status = "verified"
          /\ r.pc = "cc_sms" /\ q.resp = Ok("checkout_link_sent") =>
                /\ r.phone \in sessions'
                /\ r.effects = <<<<"stripe.sessions.create", r.phone>>,
                                 <<"twilio.messages.create", r.phone>>>>
          /\ r.pc = "wh_buy" /\ owned' # owned =>
                q.expiration = Some(now + SubscriptionDays)
          /\ r.pc = "wh_update" /\ UpdateRan(slot) =>
                \A u \in users' :
                   u.phone = r.phone =>
                      /\ u.role = "subscriber" /\ u.status = "active"
                      /\ u.proxy_number # NULL /\ u.proxy_number = r.purchased
                      /\ u.subscription_expires_at = r.expiration]_vars

\* C25: the whole sequence has run for Alice: her record, created by
\* StartVerification and verified since, is a subscriber's with a number and the
\* expiry 30 days from now, and the webhook has sent its message and acknowledged
C25_Witness ==
    /\ req["r1"].op = "stripe-webhook" /\ req["r1"].pc = "done"
    /\ req["r1"].resp = Acknowledged
    /\ Len(req["r1"].effects) = 4
    /\ CallerPhone \in sessions
    /\ \E u \in users :
          /\ u.phone = CallerPhone /\ u.name = Some("Alice") /\ u.verified
          /\ u.role = "subscriber" /\ u.status = "active"
          /\ u.proxy_number # NULL
          /\ u.subscription_expires_at = Some(now + SubscriptionDays)

\* C26: StartVerification and CheckVerification of one phone are neither ordered
\* nor locked: the UPDATE of an approved check sets verified = true on whatever
\* record has the phone when it runs, a record that a re-registration has reset
\* since the approval included.
C26_ApprovalNotOrdered ==
    [][\A slot \in Slots :
          req[slot].pc = "vf_update" /\ UpdateRan(slot) =>
             \A u \in users' : u.phone = req[slot].phone => u.verified]_vars

\* C26: the record is verified although a re-registration has reset it and the
\* code of that re-registration has not even been sent: the check in r1 was
\* approved on an earlier code and its UPDATE ran after the upsert of r2
C26_Witness ==
    /\ req["r1"].op = "verify" /\ req["r1"].resp = Ok("approved")
    /\ req["r1"].effects = <<<<"verify.check", CallerPhone>>, <<"db.update", CallerPhone>>>>
    /\ req["r2"].op = "start-verification" /\ req["r2"].pc = "sv_send"
    /\ req["r2"].phone = CallerPhone
    /\ E164(CallerPhone) \notin pending
    /\ \E u \in users : u.phone = CallerPhone /\ u.verified

\* C27: StartVerification on a phone that has a record changes nothing of that
\* record but name, status and verified (phone, role, verifiedAt, createdAt,
\* lastSeenAt, the subscription and the proxy stay as they were), creates no
\* record and touches no other record.
C27_ReregistrationFrame ==
    [][\A slot \in Slots :
          /\ req[slot].op = "start-verification" /\ Steps(slot)
          /\ \E u \in users : u.phone = req[slot].phone
          => /\ {u.id : u \in users'} = {u.id : u \in users}
             /\ \A u \in users :
                   \E v \in users' :
                      /\ v = [u EXCEPT !.name = v.name, !.status = v.status,
                                       !.verified = v.verified]
                      /\ u.phone # req[slot].phone => v = u]_vars

\* C27: a verified subscriber's record has been reset by a re-registration and
\* still has its verifiedAt, role, subscription and number
C27_Witness ==
    /\ req["r1"].op = "start-verification"
    /\ req["r1"].effects = <<<<"db.upsert", CallerPhone>>, <<"verify.send", CallerPhone>>>>
    /\ \E u \in users :
          /\ u.phone = CallerPhone /\ ~u.verified /\ u.verified_at # NULL
          /\ u.role = "subscriber" /\ HasProxy(u) /\ FullySubscribed(u)

\* C28: every checkout session CreateCheckoutSession requests carries, as its
\* metadata, the canonical phone of a record that the lookup just made found
\* verified; the only other call of the request is the message with the link,
\* sent to that same phone once the session exists.
C28_SessionTaggedThenLinked ==
    [][\A slot \in Slots :
          LET r == req[slot]
              q == req'[slot]
          IN
          /\ q.op = "create-checkout-session" /\ q.effects # r.effects =>
                \/ /\ r.pc = "cc_select"
                   /\ q.effects = <<<<"stripe.sessions.create", r.phone>>>>
                   /\ CanonicalPhone(r.phone)
                   /\ \E u \in users : u.phone = r.phone /\ u.verified
                \/ /\ r.pc = "cc_session"
                   /\ r.effects = <<<<"stripe.sessions.create", r.phone>>>>
                   /\ q.effects = Append(r.effects, <<"twilio.messages.create", r.phone>>)
                   /\ r.phone \in sessions'
          /\ r.op = "create-checkout-session" /\ sessions' # sessions =>
                /\ r.pc = "cc_session"
                /\ sessions' = sessions \cup {r.phone}
                /\ r.effects = <<<<"stripe.sessions.create", r.phone>>>>]_vars

\* C29: Lookup and CheckStatus set lastSeenAt only on a record that is verified
\* at the moment their UPDATE is applied, whatever StartVerification of the same
\* phone has done since they read the record: no step of theirs changes a record
\* that is unverified when the step runs.
C29_TouchOnlyVerified ==
    [][\A slot \in Slots :
          LookingUp(slot) /\ Steps(slot) =>
             \A u \in users : ~u.verified => u \in users']_vars

\* the answers given when an awaited statement or provider call was rejected
Rejections == {"storage error", "provider error"}
InFlight(r) == r.pc \notin {"idle", "done", "unhandled"}
Answered(r) == r.pc \in {"done", "unhandled"}
Tables == <<schema, users, pending, sessions, owned>>

\* the step of the slot ends the request on the failure of the step it awaited
Aborts(slot) ==
    LET r == req[slot]
        q == req'[slot]
    IN  /\ InFlight(r)
        /\ \/ q.pc = "unhandled"
           \/ q.pc = "done" /\ q.resp.body \in Rejections
           \/ q.pc = "done" /\ r.pc \in {"wh_list", "wh_buy", "wh_columns"}

\* the step of the slot goes on to the next step of the handler only with the
\* result of the step it awaited
GoesOnWithResult(slot) ==
    LET r == req[slot]
        q == req'[slot]
        Found == \E u \in users : u.phone = r.phone /\ u.verified
    IN  /\ r.pc = "sv_upsert" =>
              /\ ColumnsExist(UpsertColumns(r.snap))
              /\ users' = UpsertUser(users, r.name, r.phone, StartStatus(r.snap), now)
        /\ r.pc = "vf_check" => E164(r.phone) \in pending \ pending'
        /\ r.pc = "cc_select" => Found
        /\ r.pc = "cc_session" => r.phone \in sessions'
        /\ r.pc = "lk_select" => Found
        /\ r.pc = "wh_list" => q.purchased # NULL /\ q.purchased[1] \notin owned
        /\ r.pc = "wh_buy" => r.purchased[1] \in owned' \ owned
        /\ r.pc = "wh_columns" =>
              IF schema \cap ProvisionColumns = {} THEN q.pc = "wh_sms"
              ELSE q.pc = "wh_update" /\ q.columns = schema \cap ProvisionColumns
        /\ r.pc = "wh_update" =>
              /\ ColumnsExist(ActivateColumns(r))
              /\ users' = Activate(users, r, now)

\* C30: within one request, the failure of a storage operation or of a provider
\* call ends the request: the step that meets the failure issues no call and
\* changes no record, a request goes on to its next step only with the result of
\* the step before, nothing of the request runs after its answer, and no call
\* is issued twice.
C30_FailureAborts ==
    [][\A slot \in Slots :
          LET r == req[slot]
              q == req'[slot]
          IN  Steps(slot) =>
                 /\ Aborts(slot) => q.effects = r.effects /\ UNCHANGED Tables
                 /\ InFlight(r) /\ InFlight(q) => GoesOnWithResult(slot)
                 /\ Answered(r) => q = Idle /\ UNCHANGED Tables
                 /\ InFlight(r) => q.pc # r.pc
                 /\ \A i, j \in DOMAIN q.effects : q.effects[i] = q.effects[j] => i = j]_vars

\* C30: the purchase of the number was rejected and the webhook ended there:
\* neither the UPDATE nor the message followed, and no number is owned
C30_Witness ==
    /\ req["r1"].op = "stripe-webhook" /\ req["r1"].pc = "done"
    /\ req["r1"].effects = <<<<"twilio.numbers.list", "US">>,
                              <<"twilio.numbers.create", Some("+15550000001")>>>>
    /\ owned = {}
    /\ \E u \in users : u.phone = CallerPhone /\ u.verified /\ u.role # "subscriber"

\* C31: there is no deletion path: a phone that has a record has one after
\* every step, a request's or the start of a snapshot's process alike.
C31_NoDeletion ==
    [][\A u \in users : \E v \in users' : v.phone = u.phone]_vars

\* the answers of POST /verify of the snapshot that stores the code
UserNotFound == [status |-> 404, body |-> "User not found."]
VerificationFailed == [status |-> 500, body |-> "Verification failed."]

\* C32: in the snapshot that stores the code, CheckVerification for a phone that
\* has no record is answered UserNotFound once its lookup has run (the only other
\* answer being the one given when the storage rejects the lookup itself), and the
\* request ends there: it creates no record, changes none and issues nothing.
C32_UserNotFound ==
    [][\A slot \in Slots :
          LET r == req[slot]
              q == req'[slot]
          IN  /\ r.op = "verify" /\ r.pc = "sq_select" /\ Steps(slot)
              /\ SelectByPhone(users, r.phone) = {}
              => /\ q.pc = "done" /\ q.resp \in {UserNotFound, VerificationFailed}
                 /\ q.effects = <<>>
                 /\ users' = users]_vars

\* C32: a check for a phone that has no record was answered UserNotFound, next
\* to the record of another phone, which is still awaiting its code
C32_Witness ==
    /\ req["r1"].op = "verify" /\ req["r1"].resp = UserNotFound
    /\ req["r1"].effects = <<>>
    /\ \E u \in users : ~u.verified /\ u.verification_code # NULL

\* the stored code of record u is the submitted code and has not expired at t
CodeStands(u, code, t) == u.verification_code = code /\ ~Expired(t, u.code_expires_at)

\* C33: in the snapshot that stores the code, no step of CheckVerification
\* changes a record unless, when the step runs, the code the record stores (the
\* one of the most recent StartVerification) equals the submitted code and has
\* not expired, whatever StartVerification has done to the record meanwhile.
C33_OnlyCurrentCode ==
    [][\A slot \in Slots :
          LET r == req[slot] IN
          r.op = "verify" /\ r.snap = StoredCode /\ Steps(slot) =>
             \A u \in users :
                u.phone = r.phone /\ ~CodeStands(u, r.code, now) => u \in users']_vars

\* the records that hold number n as their forwarding number
HoldersOf(n) == {u \in users : u.proxy_number = Some(n)}

\* C34: when HandleCheckoutCompleted has finished, every forwarding number
\* bought from the provider is the proxy number of exactly one record: none is
\* left attached to no record.
C34_PurchasedIsAttached ==
    \A slot \in Slots :
       req[slot].op = "stripe-webhook" /\ Answered(req[slot]) =>
          \A n \in owned : Cardinality(HoldersOf(n)) = 1

\* the references a handled checkout leaves in record u
Provisioned(u) ==
    <<u.proxy_number, u.proxy_sid, u.stripe_customer_id, u.stripe_subscription_id>>

\* C35: HandleCheckoutCompleted is idempotent under redelivery: once the one
\* correctly signed checkout_completed event of the caller has been handled and
\* the record holds its forwarding number, handling the event again buys no
\* further number and the record keeps the proxy number, the provider reference
\* and the subscription references that the first handling gave it.
C35_RedeliveryIdempotent ==
    [][/\ (\E u \in users : HasProxy(u)) => owned' = owned
       /\ \A u \in users :
             HasProxy(u) =>
                \E v \in users' : v.phone = u.phone /\ Provisioned(v) = Provisioned(u)]_vars

\* the step of the slot issues the activation message of the webhook
SendsConfirmation(slot) ==
    /\ req[slot].op = "stripe-webhook"
    /\ Len(req'[slot].effects) > Len(req[slot].effects)
    /\ req'[slot].effects[Len(req'[slot].effects)] =
          <<"twilio.messages.create", req[slot].phone>>

\* C36: the activation message that names forwarding number N is sent to phone
\* P only once a record with phone P holds N as its proxy number: when the
\* message is issued, the table has such a record.
C36_ConfirmationAfterPersist ==
    [][\A slot \in Slots :
          SendsConfirmation(slot) =>
             \E u \in users' :
                u.phone = req[slot].phone /\ u.proxy_number = req[slot].purchased]_vars

\* C37: whenever CheckVerification answers approved, the table has, when the
\* answer is given, a record of the number that was verified with verified =
\* true, however the caller wrote the number in the two requests.
C37_ApprovedMeansVerified ==
    [][\A slot \in Slots :
          LET r == req[slot]
              q == req'[slot]
          IN  r.op = "verify" /\ InFlight(r) /\ q.resp = Ok("approved") =>
                 \E u \in users' : E164(u.phone) = E164(r.phone) /\ u.verified]_vars

\* C38: once HandleCheckoutCompleted has made a record role = subscriber, no
\* step of a later StartVerification or CheckVerification changes its role: a
\* subscriber who verifies again is a subscriber afterwards.
C38_SubscriberKeepsRole ==
    [][\A slot \in Slots :
          req[slot].op \in {"start-verification", "verify"} /\ Steps(slot) =>
             \A u \in users :
                u.role = "subscriber" =>
                   \E v \in users' : v.phone = u.phone /\ v.role = "subscriber"]_vars

\* the records that hold the number a call came in on
Called(slot) == SelectByProxy(users, req[slot].to)

\* C39: once HandleCheckoutCompleted has provisioned forwarding number N for
\* the record of phone P, with the expiry 30 days after the purchase, a call to N
\* is forwarded to P on every day up to and including that one, whatever
\* StartVerification, CheckVerification, Lookup or CheckStatus did to the record
\* meanwhile: these leave the number, the switch and the expiry of a provisioned
\* record as they are, and the decision reads nothing else.
C39_ForwardsWhileSubscribed ==
    [][\A slot \in Slots :
          LET r == req[slot]
              q == req'[slot]
          IN  /\ r.pc = "wh_buy" /\ q.pc = "wh_update" =>
                    q.expiration = Some(now + SubscriptionDays)
              /\ r.pc = "wh_update" /\ UpdateRan(slot) =>
                    \A v \in users' :
                       v.phone = r.phone =>
                          /\ v.proxy_number = r.purchased
                          /\ v.subscription_expires_at = r.expiration
              /\ r.op \in {"start-verification", "verify"} \cup LookupRoutes /\ Steps(slot) =>
                    \A u \in users :
                       HasProxy(u) =>
                          \E v \in users' :
                             /\ v.phone = u.phone
                             /\ v.proxy_number = u.proxy_number
                             /\ v.forwarding_enabled = u.forwarding_enabled
                             /\ v.subscription_expires_at = u.subscription_expires_at
              /\ r.pc = "pf_select" /\ Steps(slot) =>
                    \A u \in Called(slot) :
                       now <= DateOf(u.subscription_expires_at) =>
                          q.resp.body \in {Dial(u.phone), ForwardError}]_vars

\* C39: on the thirtieth day after the purchase a call to the forwarding number
\* was forwarded to the caller, whose record a StartVerification has reset
C39_Witness ==
    /\ req["r1"].op = "proxy-forward" /\ req["r1"].pc = "done"
    /\ req["r1"].resp.body = Dial(CallerPhone)
    /\ \E u \in users :
          /\ u.phone = CallerPhone /\ HasProxy(u)
          /\ ~u.verified /\ u.status = "pending_verification"
          /\ u.subscription_expires_at = Some(now)
    /\ now > SubscriptionDays

====
